---------------------------- MODULE Spec2Model ----------------------------
(***************************************************************************)
(* A model of FLINT's threaded Brown GCD for fmpz_mpoly                     *)
(* (fmpz_mpoly/gcd_brown_threaded.c, here src/unnamed/part_000): the       *)
(* compiled CRT program (fmpz_crt_precompute_p / _fmpz_crt_run_p), the     *)
(* thread-budget divider (_divide_master_threads) and the SPLIT / JOIN     *)
(* orchestration (fmpz_mpolyu_gcd_brown_threaded).                         *)
(*                                                                         *)
(* C arrays are modelled as functions with domain 0..n-1, so that the      *)
(* indices of the model are the indices of the source.                     *)
(***************************************************************************)
EXTENDS Integers, Sequences, FiniteSets, TLC

(***************************************************************************)
(* Bounds of the model.                                                    *)
(***************************************************************************)
\* largest number of moduli handed to fmpz_crt_precompute_p
MaxLen == 4
\* largest number of moduli in the specification with two concurrent runs
MaxParLen == 3
\* largest number n of images and m of threads given to _divide_master_threads
MaxN == 4
MaxM == 16

(***************************************************************************)
(* Arrays.                                                                 *)
(***************************************************************************)
ALen(a) == Cardinality(DOMAIN a)

EmptyArr == [k \in {} |-> 0]

APush(a, x) == [k \in 0..ALen(a) |-> IF k = ALen(a) THEN x ELSE a[k]]

Arrays(n, S) == [0..(n - 1) -> S]

Max(a, b) == IF a >= b THEN a ELSE b

Min(a, b) == IF a <= b THEN a ELSE b

Abs(a) == IF a < 0 THEN -a ELSE a

(***************************************************************************)
(* Big-integer primitives (the fmpz library is not part of the sources at  *)
(* hand; these are the documented mathematical meanings).                  *)
(***************************************************************************)
RECURSIVE fmpz_bits(_)
fmpz_bits(n) == IF n = 0 THEN 0 ELSE 1 + fmpz_bits(Abs(n) \div 2)

RECURSIVE fmpz_gcd(_, _)
fmpz_gcd(a, b) == IF b = 0 THEN Abs(a) ELSE fmpz_gcd(b, a % Abs(b))

\* fmpz_invmod(f, g, h): h /= 0; succeeds iff gcd(g, h) = 1, f in [0, |h|)
InvmodOk(g, h) == fmpz_gcd(g, h) = 1

fmpz_invmod(g, h) ==
    IF InvmodOk(g, h)
    THEN CHOOSE x \in 0..(Abs(h) - 1) : (g * x) % Abs(h) = 1 % Abs(h)
    ELSE 0

\* fmpz_mods(f, g, h): the residue of g mod h in (-|h|/2, |h|/2]
fmpz_mods(g, h) ==
    LET r == g % Abs(h)
    IN  IF 2 * r > Abs(h) THEN r - Abs(h) ELSE r

(***************************************************************************)
(* The compiled CRT program, fmpz_crt_struct.  prog is the array of        *)
(* instructions [a_idx, b_idx, c_idx, idem, modulus]; length is the        *)
(* length of prog.  alloc is storage only and is not modelled.             *)
(***************************************************************************)
fmpz_crt_init ==
    [prog |-> EmptyArr, length |-> 0, localsize |-> 1,
     temp1loc |-> 0, temp2loc |-> 0, good |-> 0]

\* _fmpz_crt_set_length(P, k): drop the instructions from k on
fmpz_crt_set_length(P, k) ==
    [P EXCEPT !.prog = [i \in 0..(k - 1) |-> P.prog[i]], !.length = k]

\* perm[i] = [idx, degree]; the sum of perm[i].degree over lo <= i < hi
RECURSIVE DegreeSum(_, _, _)
DegreeSum(perm, lo, hi) ==
    IF lo >= hi THEN 0 ELSE perm[lo].degree + DegreeSum(perm, lo + 1, hi)

\* the balancing loop of _push_prog: the final value of mid
RECURSIVE BalanceMid(_, _, _, _, _)
BalanceMid(perm, mid, stop, lefttot, righttot) ==
    IF /\ lefttot < righttot
       /\ mid + 1 < stop
       /\ perm[mid].degree < righttot - lefttot
    THEN BalanceMid(perm, mid + 1, stop,
                    lefttot + perm[mid].degree, righttot - perm[mid].degree)
    ELSE mid

\* the slots handed to the two subtrees of the node that returns in ret_idx
LeftSlot(ret_idx) == ret_idx + 1

RightSlotSharesLeft(ret_idx) == ret_idx + 1

RightSlot(ret_idx) == ret_idx + 2

\* the encoding of "input idx" as an operand
InputOperand(idx) == -1 - idx

\* "check if fmpz_invmod is going to throw"
ZeroModulus(leftmodulus, rightmodulus) == leftmodulus = 0 \/ rightmodulus = 0

NodeGoodIgnoresInverse(good, leftmodulus, rightmodulus) == good

\* P->good = P->good && fmpz_invmod(P->prog[i].modulus, leftmodulus, rightmodulus)
NodeGood(good, leftmodulus, rightmodulus) ==
    IF good = 1 /\ InvmodOk(leftmodulus, rightmodulus) THEN 1 ELSE 0

NodeInstrDestAsOperand(ret_idx, b_idx, c_idx, leftmodulus, rightmodulus) ==
    [a_idx |-> ret_idx, b_idx |-> ret_idx, c_idx |-> c_idx,
     idem |-> leftmodulus * fmpz_invmod(leftmodulus, rightmodulus),
     modulus |-> leftmodulus * rightmodulus]

NodeInstrNoIdempotent(ret_idx, b_idx, c_idx, leftmodulus, rightmodulus) ==
    [a_idx |-> ret_idx, b_idx |-> b_idx, c_idx |-> c_idx,
     idem |-> fmpz_invmod(leftmodulus, rightmodulus),
     modulus |-> leftmodulus * rightmodulus]

\* the instruction compiled for [start, stop)
NodeInstr(ret_idx, b_idx, c_idx, leftmodulus, rightmodulus) ==
    [a_idx |-> ret_idx, b_idx |-> b_idx, c_idx |-> c_idx,
     idem |-> leftmodulus * fmpz_invmod(leftmodulus, rightmodulus),
     modulus |-> leftmodulus * rightmodulus]

(***************************************************************************)
(* _push_prog: combine all moduli in [start, stop); the result is the      *)
(* program after the call and the returned index, [P, ret].                *)
(***************************************************************************)
RECURSIVE push_prog(_, _, _, _, _, _)
push_prog(P, moduli, perm, ret_idx, start, stop) ==
    LET mid0 == start + (stop - start) \div 2
        mid  == BalanceMid(perm, mid0, stop,
                           DegreeSum(perm, start, mid0),
                           DegreeSum(perm, mid0, stop))
        P0   == [P EXCEPT !.localsize = Max(P.localsize, 1 + ret_idx)]
        \* compile left [start, mid)
        leftrec  == start + 1 < mid
        L    == IF leftrec
                THEN push_prog(P0, moduli, perm, LeftSlot(ret_idx), start, mid)
                ELSE [P |-> P0, ret |-> -1]
        b_idx == IF leftrec THEN LeftSlot(ret_idx)
                 ELSE InputOperand(perm[start].idx)
        \* compile right [mid, stop)
        rightrec == mid + 1 < stop
        R    == IF rightrec
                THEN push_prog(L.P, moduli, perm, RightSlot(ret_idx), mid, stop)
                ELSE [P |-> L.P, ret |-> -1]
        c_idx == IF rightrec THEN RightSlot(ret_idx)
                 ELSE InputOperand(perm[mid].idx)
    IN  IF leftrec /\ L.P.good = 0 THEN [P |-> L.P, ret |-> -1]
        ELSE IF rightrec /\ R.P.good = 0 THEN [P |-> R.P, ret |-> -1]
        ELSE
          LET leftmodulus  == IF leftrec THEN R.P.prog[L.ret].modulus
                              ELSE moduli[perm[start].idx]
              rightmodulus == IF rightrec THEN R.P.prog[R.ret].modulus
                              ELSE moduli[perm[mid].idx]
              i == R.P.length
          IN  IF ZeroModulus(leftmodulus, rightmodulus)
              THEN [P |-> [R.P EXCEPT !.good = 0], ret |-> -1]
              ELSE [P |-> [R.P EXCEPT
                             !.good = NodeGood(R.P.good, leftmodulus, rightmodulus),
                             !.prog = APush(R.P.prog,
                                         NodeInstr(ret_idx, b_idx, c_idx,
                                                   leftmodulus, rightmodulus)),
                             !.length = i + 1],
                    ret |-> i]

(***************************************************************************)
(* qsort by index_deg_pair_cmp: any arrangement of the pairs [idx, degree] *)
(* with non-decreasing degree (qsort is not stable, so the order among     *)
(* equal degrees is the library's choice).                                 *)
(***************************************************************************)
SortedPerms(moduli) ==
    LET len == ALen(moduli)
    IN  { [i \in 0..(len - 1) |-> [idx |-> f[i], degree |-> fmpz_bits(moduli[f[i]])]] :
            f \in { g \in [0..(len - 1) -> 0..(len - 1)] :
                      /\ \A i, j \in 0..(len - 1) : i # j => g[i] # g[j]
                      /\ \A i \in 1..(len - 1) :
                            fmpz_bits(moduli[g[i - 1]]) <= fmpz_bits(moduli[g[i]]) } }

SingleGoodAlways(m) == 1

\* P->good = !fmpz_is_zero(moduli[0])
SingleGood(m) == IF m # 0 THEN 1 ELSE 0

TempLocsInside(localsize) == [temp1loc |-> localsize - 1, temp2loc |-> localsize]

\* "two more spots for temporaries"
TempLocs(localsize) == [temp1loc |-> localsize, temp2loc |-> localsize + 1]

(***************************************************************************)
(* fmpz_crt_precompute_p(P, moduli, len) with the sorted perm it got from  *)
(* qsort; the return value is the good field of the result.                *)
(***************************************************************************)
fmpz_crt_precompute_p(P, moduli, perm) ==
    LET len == ALen(moduli)
        P1  == [fmpz_crt_set_length(P, 0) EXCEPT !.localsize = 1, !.good = 1]
        P2  == IF 1 < len
               THEN push_prog(P1, moduli, perm, 0, 0, len).P
               ELSE [P1 EXCEPT
                       !.prog = APush(EmptyArr,
                                   [a_idx |-> 0, b_idx |-> -1, c_idx |-> -1,
                                    idem |-> 0, modulus |-> moduli[0]]),
                       !.length = 1,
                       !.good = SingleGood(moduli[0])]
        P3  == IF P2.good = 0 THEN fmpz_crt_set_length(P2, 0) ELSE P2
        t   == TempLocs(P3.localsize)
    IN  [P3 EXCEPT !.temp1loc = t.temp1loc, !.temp2loc = t.temp2loc,
                   !.localsize = P3.localsize + 2]


(***************************************************************************)
(* _fmpz_crt_run_p, one instruction.  outputs is the caller's scratch      *)
(* array, inputs the residues.  The four fmpz operations are applied in    *)
(* the order of the source, each reading its operands through the          *)
(* pointers as they stand at that moment.                                  *)
(***************************************************************************)
OperandOffByOne(outputs, inputs, idx) ==
    IF idx < 0 THEN inputs[-idx - 1] ELSE outputs[idx + 1]

\* B = b < 0 ? inputs[-b-1] : outputs + b
Operand(outputs, inputs, idx) ==
    IF idx < 0 THEN inputs[-idx - 1] ELSE outputs[idx]

RunInstrNoReduction(outputs, P, inputs, i) ==
    LET ins == P.prog[i]
        o1  == [outputs EXCEPT ![P.temp1loc] =
                  Operand(outputs, inputs, ins.b_idx) - Operand(outputs, inputs, ins.c_idx)]
        o2  == [o1 EXCEPT ![P.temp2loc] = ins.idem * o1[P.temp1loc]]
        o3  == [o2 EXCEPT ![P.temp1loc] =
                  Operand(o2, inputs, ins.b_idx) - o2[P.temp2loc]]
    IN  [o3 EXCEPT ![ins.a_idx] = o3[P.temp1loc]]

RunInstr(outputs, P, inputs, i) ==
    LET ins == P.prog[i]
        \* fmpz_sub(t1, B, C)
        o1  == [outputs EXCEPT ![P.temp1loc] =
                  Operand(outputs, inputs, ins.b_idx) - Operand(outputs, inputs, ins.c_idx)]
        \* fmpz_mul(t2, P->prog[i].idem, t1)
        o2  == [o1 EXCEPT ![P.temp2loc] = ins.idem * o1[P.temp1loc]]
        \* fmpz_sub(t1, B, t2)
        o3  == [o2 EXCEPT ![P.temp1loc] =
                  Operand(o2, inputs, ins.b_idx) - o2[P.temp2loc]]
        \* fmpz_mods(A, t1, P->prog[i].modulus)
    IN  [o3 EXCEPT ![ins.a_idx] = fmpz_mods(o3[P.temp1loc], ins.modulus)]

\* the scratch slots instruction i reads as B or C
SlotsRead(P, i) ==
    { x \in {P.prog[i].b_idx, P.prog[i].c_idx} : x >= 0 }

\* _fmpz_crt_run_p run to completion from instruction i
RECURSIVE fmpz_crt_run_p(_, _, _, _)
fmpz_crt_run_p(outputs, P, inputs, i) ==
    IF i >= P.length THEN outputs
    ELSE fmpz_crt_run_p(RunInstr(outputs, P, inputs, i), P, inputs, i + 1)

(***************************************************************************)
(* Rationals (fmpq), kept in canonical form [num, den], den >= 1.          *)
(***************************************************************************)
fmpq_set_si(p, q) ==
    LET g == fmpz_gcd(p, q)
    IN  [num |-> p \div g, den |-> q \div g]

fmpq_zero == [num |-> 0, den |-> 1]

(***************************************************************************)
(* fmpq_farey_neighbors (not part of the sources at hand): for a canonical *)
(* mid = p/q with q >= 2, the fractions left = a/b < mid < c/d = right     *)
(* next to mid in the Farey sequence of order q; they satisfy a + c = p,   *)
(* b + d = q and b*c - a*d = 1.                                            *)
(***************************************************************************)
fmpq_farey_neighbors(mid) ==
    LET b == CHOOSE x \in 1..(mid.den - 1) : (mid.num * x) % mid.den = 1
        a == (mid.num * b - 1) \div mid.den
    IN  [left  |-> [num |-> a, den |-> b],
         right |-> [num |-> mid.num - a, den |-> mid.den - b]]

BelowThresholdDoubled(right, n, m) == right.num * m < 2 * n * right.den

\* fmpq_get_d(right) < score_threashold, where score_threashold = 1.1*n/m
\* (in exact arithmetic; the doubles of the source decide the same way for
\* every n and m of the model)
BelowThreshold(right, n, m) == 10 * right.num * m < 11 * n * right.den

SplitAtLosesLeft(v, l, i, nb) == [v EXCEPT ![i] = nb.right, ![l] = fmpq_zero]

\* "delete v + i, add left and right"
SplitAt(v, l, i, nb) == [v EXCEPT ![i] = nb.right, ![l] = nb.left]

\* the condition of the if in the loop of _divide_master_threads
CanSplit(v, i, n, m) ==
    /\ v[i].den >= 2
    /\ BelowThreshold(fmpq_farey_neighbors(v[i]).right, n, m)

InitialMastersOne(n, m) == 1

\* "initial choice for v": l = n_gcd(n, m)
InitialMasters(n, m) == fmpz_gcd(n, m)

\* the state [l, i, v] of _divide_master_threads when its loop is entered;
\* v is the caller's vector of m fractions, zero beyond the first l
DivideEnter(n, m) ==
    [l |-> InitialMasters(n, m), i |-> 0,
     v |-> [k \in 0..(m - 1) |->
              IF k < InitialMasters(n, m) THEN fmpq_set_si(n, m) ELSE fmpq_zero]]

DivideIterNeverAdvances(st, n, m) ==
    IF CanSplit(st.v, st.i, n, m)
    THEN [st EXCEPT !.v = SplitAt(st.v, st.l, st.i, fmpq_farey_neighbors(st.v[st.i])),
                    !.l = st.l + 1]
    ELSE st

\* one iteration of the loop
DivideIter(st, n, m) ==
    IF CanSplit(st.v, st.i, n, m)
    THEN [st EXCEPT !.v = SplitAt(st.v, st.l, st.i, fmpq_farey_neighbors(st.v[st.i])),
                    !.l = st.l + 1]
    ELSE [st EXCEPT !.i = st.i + 1]

RECURSIVE DivideLoop(_, _, _)
DivideLoop(st, n, m) ==
    IF st.i < st.l THEN DivideLoop(DivideIter(st, n, m), n, m) ELSE st

\* _divide_master_threads(&l, v, n, m): the l and the v it leaves
divide_master_threads(n, m) == DivideLoop(DivideEnter(n, m), n, m)

(***************************************************************************)
(* Polynomials.                                                            *)
(*   fmpz_mpoly   (MP)  an array of terms [exp, coeff], exp the packed     *)
(*                monomial in the inner variables (an integer), coeff an   *)
(*                integer, the monomials strictly decreasing               *)
(*   fmpz_mpolyu  (MPU) an array of terms [exp, coeff], exp the exponent   *)
(*                of the main variable X, coeff an fmpz_mpoly, the         *)
(*                exponents strictly decreasing                            *)
(*   nmod_mpolyun       the same shape with coefficients in [0, p)         *)
(* The inputs of the model are polynomials in X whose coefficients are     *)
(* constant in the inner variables: every fmpz_mpoly has the one monomial  *)
(* 0.  A dense polynomial is an array c with c[e] the coefficient of X^e.  *)
(***************************************************************************)
MPConst(c) == IF c = 0 THEN EmptyArr ELSE [k \in 0..0 |-> [exp |-> 0, coeff |-> c]]

\* the constant term of an fmpz_mpoly
MPValue(mp) == IF ALen(mp) = 0 THEN 0 ELSE mp[ALen(mp) - 1].coeff

\* the coefficient of X^e in the fmpz_mpolyu (or nmod_mpolyun) U
UCoef(U, e) ==
    IF \E k \in DOMAIN U : U[k].exp = e
    THEN MPValue(U[CHOOSE k \in DOMAIN U : U[k].exp = e].coeff)
    ELSE 0

\* the exponents of X present in f, a function on 0..d, largest first
RECURSIVE ExpsDown(_, _)
ExpsDown(f, d) ==
    IF d < 0 THEN << >>
    ELSE IF f[d] # 0 THEN <<d>> \o ExpsDown(f, d - 1)
    ELSE ExpsDown(f, d - 1)

\* the canonical fmpz_mpolyu with coefficient f[e] at X^e, e in 0..d
UFromDense(f, d) ==
    LET es == ExpsDown(f, d)
    IN  [k \in 0..(Len(es) - 1) |-> [exp |-> es[k + 1], coeff |-> MPConst(f[es[k + 1]])]]

UDeg(U) == IF ALen(U) = 0 THEN -1 ELSE U[0].exp

\* fmpz_mpolyu_leadcoeff: the leading coefficient of the leading term
fmpz_mpolyu_leadcoeff(U) == U[0].coeff[0].coeff

RECURSIVE GcdOver(_, _)
GcdOver(U, k) == IF k >= ALen(U) THEN 0
                 ELSE fmpz_gcd(MPValue(U[k].coeff), GcdOver(U, k + 1))

\* fmpz_mpolyu_content_fmpz: the gcd of all coefficients
fmpz_mpolyu_content_fmpz(U) == GcdOver(U, 0)

RECURSIVE MaxAbsOver(_, _)
MaxAbsOver(U, k) == IF k >= ALen(U) THEN 0
                    ELSE Max(Abs(MPValue(U[k].coeff)), MaxAbsOver(U, k + 1))

\* fmpz_mpolyu_height: the largest absolute value of a coefficient
fmpz_mpolyu_height(U) == MaxAbsOver(U, 0)

fmpz_mpolyu_divexact_fmpz(U, c) ==
    UFromDense([e \in 0..UDeg(U) |-> UCoef(U, e) \div c], UDeg(U))

fmpz_mpolyu_mul_fmpz(U, c) ==
    UFromDense([e \in 0..UDeg(U) |-> UCoef(U, e) * c], UDeg(U))

fmpz_mpolyu_one == UFromDense([e \in 0..0 |-> 1], 0)

\* the product of two polynomials, as an fmpz_mpolyu
RECURSIVE ConvSum(_, _, _, _)
ConvSum(U, V, e, k) ==
    IF k < 0 THEN 0 ELSE UCoef(U, k) * UCoef(V, e - k) + ConvSum(U, V, e, k - 1)

UMul(U, V) ==
    IF ALen(U) = 0 \/ ALen(V) = 0 THEN EmptyArr
    ELSE UFromDense([e \in 0..(UDeg(U) + UDeg(V)) |-> ConvSum(U, V, e, e)],
                    UDeg(U) + UDeg(V))

(***************************************************************************)
(* Arithmetic in F_p[X] on dense arrays without leading zeros (the zero    *)
(* polynomial is the empty array).                                         *)
(***************************************************************************)
RECURSIVE PTrimLen(_, _)
PTrimLen(f, n) == IF n = 0 THEN 0 ELSE IF f[n - 1] # 0 THEN n ELSE PTrimLen(f, n - 1)

PTrim(f) == [e \in 0..(PTrimLen(f, ALen(f)) - 1) |-> f[e]]

PDeg(f) == ALen(f) - 1

n_invmod(a, p) == CHOOSE x \in 1..(p - 1) : (a * x) % p = 1

\* f - c * X^k * g mod p
PSubShift(f, g, c, k, p) ==
    PTrim([e \in DOMAIN f |->
             IF e >= k /\ e - k <= PDeg(g) THEN (f[e] - c * g[e - k]) % p ELSE f[e]])

\* quotient and remainder of f by g /= 0 in F_p[X]; q is a function on 0..PDeg(f)
RECURSIVE PDivRem(_, _, _, _)
PDivRem(f, g, q, p) ==
    IF PDeg(f) < PDeg(g) THEN [q |-> q, r |-> f]
    ELSE LET c == (f[PDeg(f)] * n_invmod(g[PDeg(g)], p)) % p
             k == PDeg(f) - PDeg(g)
         IN  PDivRem(PSubShift(f, g, c, k, p), g, [q EXCEPT ![k] = c], p)

PRem(f, g, p) == PDivRem(f, g, [e \in DOMAIN f |-> 0], p).r

PQuo(f, g, p) == PTrim(PDivRem(f, g, [e \in DOMAIN f |-> 0], p).q)

PMonic(f, p) == [e \in DOMAIN f |-> (f[e] * n_invmod(f[PDeg(f)], p)) % p]

RECURSIVE PGcd(_, _, _)
PGcd(f, g, p) == IF ALen(g) = 0 THEN PMonic(f, p) ELSE PGcd(g, PRem(f, g, p), p)

UToDense(U) == [e \in 0..UDeg(U) |-> UCoef(U, e)]

(***************************************************************************)
(* The modular layer (not part of the sources at hand).                    *)
(***************************************************************************)
\* fmpz_mpolyu_intp_reduce_p_mpolyun: the coefficients reduced into [0, p)
fmpz_mpolyu_intp_reduce_p_mpolyun(U, p) ==
    UFromDense([e \in 0..UDeg(U) |-> UCoef(U, e) % p], UDeg(U))

\* nmod_mpolyun_gcd_brown_smprime(Gp, Abarp, Bbarp, Ap, Bp): Gp the monic
\* gcd of Ap and Bp, Abarp = Ap/Gp and Bbarp = Bp/Gp
nmod_mpolyun_gcd_brown_smprime(Ap, Bp, p) ==
    LET g == PGcd(UToDense(Ap), UToDense(Bp), p)
        a == PQuo(UToDense(Ap), g, p)
        b == PQuo(UToDense(Bp), g, p)
    IN  [Gp    |-> UFromDense(g, PDeg(g)),
         Abarp |-> UFromDense(a, PDeg(a)),
         Bbarp |-> UFromDense(b, PDeg(b))]

\* nmod_mpolyun_is_nonzero_nmod: Gp is a nonzero constant
nmod_mpolyun_is_nonzero_nmod(Gp) == ALen(Gp) = 1 /\ Gp[0].exp = 0

nmod_mpolyun_scalar_mul_nmod(Gp, c, p) ==
    UFromDense([e \in 0..UDeg(Gp) |-> (UCoef(Gp, e) * c) % p], UDeg(Gp))

\* fmpz_mpolyu_intp_lift_p_mpolyun: the coefficients lifted to (-p/2, p/2]
fmpz_mpolyu_intp_lift_p_mpolyun(Gp, p) ==
    UFromDense([e \in 0..UDeg(Gp) |-> fmpz_mods(UCoef(Gp, e), p)], UDeg(Gp))

\* the integer in (-m*p/2, m*p/2] that is x mod m and y mod p
CrtPair(x, m, y, p) ==
    fmpz_mods(x + m * (((y - x) * n_invmod(m % p, p)) % p), m * p)

\* fmpz_mpolyu_intp_crt_p_mpolyun(G, T, ctx, modulus, Gp, pctx): every
\* coefficient of G combined with the coefficient of Gp at the same monomial
fmpz_mpolyu_intp_crt_p_mpolyun(G, modulus, Gp, p) ==
    LET d == Max(UDeg(G), UDeg(Gp))
    IN  UFromDense([e \in 0..d |-> CrtPair(UCoef(G, e), modulus, UCoef(Gp, e), p)], d)

(***************************************************************************)
(* Word size and primes.  FLINT_BITS is scaled down to WordBits so that    *)
(* the pool of word-sized primes above 2^(FLINT_BITS - 2) is small enough  *)
(* to be exhausted.                                                        *)
(***************************************************************************)
WordBits == 4

RECURSIVE Pow(_, _)
Pow(b, k) == IF k = 0 THEN 1 ELSE b * Pow(b, k - 1)

IsPrime(q) == q >= 2 /\ \A d \in 2..(q - 1) : q % d # 0

\* the largest prime that fits a word
UWORD_MAX_PRIME ==
    CHOOSE q \in 2..(Pow(2, WordBits) - 1) :
        IsPrime(q) /\ \A r \in (q + 1)..(Pow(2, WordBits) - 1) : ~IsPrime(r)

\* n_nextprime(p, 1) for p < UWORD_MAX_PRIME
n_nextprime(p) ==
    CHOOSE q \in (p + 1)..UWORD_MAX_PRIME :
        IsPrime(q) /\ \A r \in (p + 1)..(q - 1) : ~IsPrime(r)

\* splitbase->p = UWORD(1) << (FLINT_BITS - 2)
FirstPrimeFloor == Pow(2, WordBits - 2)

\* fmpz_cdiv_q for positive operands
fmpz_cdiv_q(a, b) == (a + b - 1) \div b

\* fmpz_clog_ui(x, b): the least k with b^k >= x
RECURSIVE ClogFrom(_, _, _)
ClogFrom(x, b, k) == IF Pow(b, k) >= x THEN k ELSE ClogFrom(x, b, k + 1)

fmpz_clog_ui(x, b) == ClogFrom(x, b, 0)

(***************************************************************************)
(* fmpz_mpoly_crt: A = crt(B[0], ..., B[count-1]) with respect to P.       *)
(* st = [start, input, A, Amax, Asum, output]; input[k] is the index of    *)
(* the term of B[k] used, or -1 for the shared zero.                       *)
(***************************************************************************)
mpoly_monomial_cmp(a, b) == IF a > b THEN 1 ELSE IF a < b THEN -1 ELSE 0

UndoKeepsCursors(st, k) ==
    [st EXCEPT !.input = [j \in DOMAIN st.input |-> IF j < k THEN -1 ELSE st.input[j]]]

\* for (j = 0; j < k; j++) { start[j] -= (input[j] != zero); input[j] = zero; }
UndoPreviousMax(st, k) ==
    [st EXCEPT
       !.start = [j \in DOMAIN st.start |->
                    IF j < k /\ st.input[j] # -1 THEN st.start[j] - 1 ELSE st.start[j]],
       !.input = [j \in DOMAIN st.input |-> IF j < k THEN -1 ELSE st.input[j]]]

\* the scan of B[k], B[k+1], ... against the monomial Aexp taken at found_max
RECURSIVE ScanRest(_, _, _, _)
ScanRest(B, st, Aexp, k) ==
    IF k >= ALen(B) THEN [st |-> st, Aexp |-> Aexp]
    ELSE IF st.start[k] >= ALen(B[k])
    THEN ScanRest(B, [st EXCEPT !.input[k] = -1], Aexp, k + 1)
    ELSE LET cmp == mpoly_monomial_cmp(B[k][st.start[k]].exp, Aexp)
         IN  IF cmp = 0
             THEN ScanRest(B, [st EXCEPT !.input[k] = st.start[k],
                                         !.start[k] = st.start[k] + 1], Aexp, k + 1)
             ELSE IF cmp > 0
             THEN \* found_max again, at k
                  LET u == UndoPreviousMax(st, k)
                  IN  ScanRest(B, [u EXCEPT !.input[k] = u.start[k],
                                            !.start[k] = u.start[k] + 1],
                               B[k][u.start[k]].exp, k + 1)
             ELSE ScanRest(B, [st EXCEPT !.input[k] = -1], Aexp, k + 1)

\* the first k with start[k] < B[k]->length, or count
RECURSIVE FirstUnscanned(_, _, _)
FirstUnscanned(B, start, k) ==
    IF k >= ALen(B) \/ start[k] < ALen(B[k]) THEN k ELSE FirstUnscanned(B, start, k + 1)

MergeNoAbs(Amax, c) == IF Amax < c THEN c ELSE Amax

\* if (fmpz_cmpabs(Amax, c) < 0) Amax = |c|
MergeMax(Amax, c) == IF Abs(Amax) < Abs(c) THEN Abs(c) ELSE Amax

\* found_max at k0: input[k0] = B[k0]->coeffs + start[k0]; start[k0]++
TakeMax(st, k0) ==
    [st EXCEPT
       !.input = [j \in DOMAIN st.input |->
                    IF j < k0 THEN -1 ELSE IF j = k0 THEN st.start[k0] ELSE st.input[j]],
       !.start[k0] = st.start[k0] + 1]

\* the residues the input pointers stand for
TermInputs(B, input) ==
    [k \in DOMAIN B |-> IF input[k] = -1 THEN 0 ELSE B[k][input[k]].coeff]

\* the term with coefficient out[0] is stored and counted in Amax and Asum
StoreTerm(st, Aexp, out) ==
    [st EXCEPT
       \* fmpz_swap(output + 0, A->coeffs + Ai)
       !.output = [out EXCEPT ![0] = 0],
       \* Ai += !fmpz_is_zero(A->coeffs + Ai)
       !.A = IF out[0] = 0 THEN st.A ELSE APush(st.A, [exp |-> Aexp, coeff |-> out[0]]),
       !.Asum = st.Asum + Abs(out[0]),
       !.Amax = MergeMax(st.Amax, out[0])]

CrtTerm(P, B, sc) ==
    StoreTerm(sc.st, sc.Aexp,
              fmpz_crt_run_p(sc.st.output, P, TermInputs(B, sc.st.input), 0))

RECURSIVE MpolyCrtLoop(_, _, _)
RECURSIVE MpolyCrtFrom(_, _, _, _)
MpolyCrtFrom(P, B, st, k0) ==
    IF k0 >= ALen(B) THEN st
    ELSE MpolyCrtLoop(P, B,
           CrtTerm(P, B, ScanRest(B, TakeMax(st, k0), B[k0][st.start[k0]].exp, k0 + 1)))

\* while (1): one term of A per turn, until all B[k] have been scanned
MpolyCrtLoop(P, B, st) == MpolyCrtFrom(P, B, st, FirstUnscanned(B, st.start, 0))

fmpz_mpoly_crt(P, Amax, Asum, B) ==
    LET st == MpolyCrtLoop(P, B,
                [start  |-> [k \in DOMAIN B |-> 0],
                 input  |-> [k \in DOMAIN B |-> -1],
                 A      |-> EmptyArr,
                 Amax   |-> Amax,
                 Asum   |-> Asum,
                 output |-> [k \in 0..(P.localsize - 1) |-> 0]])
    IN  [A |-> st.A, Amax |-> st.Amax, Asum |-> st.Asum]

\* C[k]: the coefficient of X^exp in B[k], or the zero polynomial
CoeffAt(U, exp) ==
    IF \E j \in DOMAIN U : U[j].exp = exp
    THEN U[CHOOSE j \in DOMAIN U : U[j].exp = exp].coeff
    ELSE EmptyArr

CrtExpAlwaysAppends(A, exp, coeff) == APush(A, [exp |-> exp, coeff |-> coeff])

\* A->exps[Ai] = exp; A->length += (A->coeffs + Ai)->length != 0
CrtExpAppend(A, exp, coeff) ==
    IF ALen(coeff) # 0 THEN APush(A, [exp |-> exp, coeff |-> coeff]) ELSE A

\* fmpz_mpolyu_crt_exp: append to A the result of crt'ing the coeff of X^exp
fmpz_mpolyu_crt_exp(P, Amax, Asum, A, exp, B) ==
    LET r == fmpz_mpoly_crt(P, Amax, Asum, [k \in DOMAIN B |-> CoeffAt(B[k], exp)])
    IN  [A |-> CrtExpAppend(A, exp, r.A), Amax |-> r.Amax, Asum |-> r.Asum]

(***************************************************************************)
(* _final_join: A = B[0] + ... + B[num_threads - 1], a top level merge.    *)
(***************************************************************************)
RECURSIVE MaxPos(_, _, _, _, _)
MaxPos(B, starts, i, max_pos, max_exp) ==
    IF i >= ALen(B) THEN max_pos
    ELSE IF starts[i] < ALen(B[i]) /\ B[i][starts[i]].exp > max_exp
    THEN MaxPos(B, starts, i + 1, i, B[i][starts[i]].exp)
    ELSE MaxPos(B, starts, i + 1, max_pos, max_exp)

RECURSIVE FinalJoinLoop(_, _, _)
FinalJoinLoop(B, starts, A) ==
    LET max_pos == MaxPos(B, starts, 0, -1, -1)
    IN  IF max_pos < 0 THEN A
        ELSE FinalJoinLoop(B, [starts EXCEPT ![max_pos] = starts[max_pos] + 1],
                           APush(A, B[max_pos][starts[max_pos]]))

final_join(B) == FinalJoinLoop(B, [i \in DOMAIN B |-> 0], EmptyArr)

(***************************************************************************)
(* State of a call of fmpz_mpolyu_gcd_brown_threaded.                      *)
(*   gcd_pc      "compute_split", "split" (the masters run), "join" (the   *)
(*               join workers run), "return"                               *)
(*   inA, inB    the inputs as passed (A and B themselves are modified)    *)
(*   splitbase   [p, gcd_is_one], shared by the masters                    *)
(*   splitargs   per master [G, Abar, Bbar, modulus, image_count,          *)
(*               required_images, num_workers, p, pc]; pc is "loop" at the *)
(*               head of the while loop, "locked" inside the critical      *)
(*               section, "image" with a prime in hand, "done" after the   *)
(*               loop, "idle" before the first split; flag_at_top is the   *)
(*               value gcd_is_one had when the master last passed the     *)
(*               head of its loop (the code does not read it there);       *)
(*               last is how the turn of the loop that has just ended      *)
(*               went ("none" inside a turn), acc_primes the primes whose  *)
(*               images are in the accumulator;                            *)
(*               master_handle and worker_handles are positions in the     *)
(*               array handles, master_handle -1 for the calling thread    *)
(*   split_mutex the master that holds splitbase->mutex, or -1             *)
(*   joinbase    [G_exp, Abar_exp, Bbar_exp, CRT, gptrs, abarptrs,         *)
(*               bbarptrs, mptrs, num_images]                              *)
(*   joinargs    per join worker [G, Abar, Bbar, Gmax, ..., Bbarsum, pc]   *)
(*   success     the return value, -1 while the call runs                  *)
(*   mgcd_declines   the primes p for which the modular gcd (lines 451-461)  *)
(*               returns 0 on the images of A and B                        *)
(*   gcd_log     what the call has done so far: the primes fetched, in     *)
(*               the order of the critical sections; for each write of     *)
(*               gcd_is_one the writer and the holder of the mutex at the  *)
(*               time; the claims [part, exp, worker] of the current join  *)
(***************************************************************************)
VARIABLES gcd_pc, num_workers, inA, inB, A, B, cG, cAbar, cBbar, gamma,
          bound, modulus, G, Abar, Bbar, success,
          splitbase, splitargs, num_master_threads, joinbase, joinargs,
          split_mutex, gcd_log, mgcd_declines

gcdArgs == <<num_workers, inA, inB, cG, cAbar, cBbar, gamma, mgcd_declines>>

gcdOut == <<G, Abar, Bbar, success>>

gcdVars == <<gcd_pc, gcdArgs, A, B, bound, modulus, gcdOut,
             splitbase, splitargs, num_master_threads, joinbase, joinargs,
             split_mutex, gcd_log>>

(***************************************************************************)
(* State of a call of fmpz_mpoly_gcd_brown_threaded, the entry point that  *)
(* takes the pool handles and calls fmpz_mpolyu_gcd_brown_threaded.        *)
(*   wrap_pc   "entry", "gcd" (inside fmpz_mpolyu_gcd_brown_threaded),     *)
(*             "give_back" (the loop at lines 1449-1452), "return"         *)
(*   mA, mB    the inputs: [bits, terms], terms an array of [exp, coeff]   *)
(*             with exp the tuple of the exponents of the nvars variables  *)
(*   mG        the output G                                                *)
(*   wrap_ret  the value returned, -1 before the return                    *)
(*   global_thread_pool   [initialized, size, avail]: avail is the set of  *)
(*             handles nobody holds                                        *)
(*   handles   the handles the request has written, in order               *)
(*   wrap_i    the index of the give-back loop                             *)
(*   pool_log  what this call has done to the pool: the number of calls     *)
(*             of thread_pool_request, the set of handles obtained, and     *)
(*             for each handle the number of times it was given back        *)
(***************************************************************************)
VARIABLES wrap_pc, mA, mB, nvars, thread_limit, mG, wrap_ret,
          global_thread_pool, handles, wrap_i, pool_log

wrapArgs == <<mA, mB, nvars, thread_limit>>

wrapVars == <<wrap_pc, wrapArgs, mG, wrap_ret, global_thread_pool, handles,
              wrap_i, pool_log>>

(***************************************************************************)
(* State of a call of fmpz_mpoly_crt, one step per turn of its loops.      *)
(*   mc_pc    "top" (line 582, the head of while (1)), "scan" (the for     *)
(*            loop at line 602, or the call of the runner at line 628 once *)
(*            k has reached count), "done" (line 649)                      *)
(*   mc_B     the inputs B[0..count-1], each an array of [exp, coeff]      *)
(*   mc_P     the compiled CRT program                                     *)
(*   mc_st    [start, input, A, Amax, Asum, output] as in fmpz_mpoly_crt   *)
(*   mc_k     the loop index k                                             *)
(*   mc_Aexp  A->exps[Ai], the monomial of the term being built            *)
(*   mc_log   what the call has done: start as it stood at the head of the *)
(*            current turn of while (1), the calls of the runner in order  *)
(*            ([exp, input, out]), and the largest number of cursors one   *)
(*            undo has moved back                                          *)
(***************************************************************************)
VARIABLES mc_pc, mc_B, mc_P, mc_st, mc_k, mc_Aexp, mc_log

mcVars == <<mc_pc, mc_B, mc_P, mc_st, mc_k, mc_Aexp, mc_log>>

(***************************************************************************)
(* State of a call of _divide_master_threads.                              *)
(*   div_pc   "call", "loop", "done"                                       *)
(*   div_n, div_m   the arguments n and m                                  *)
(*   div_st   the locals [l, i] and the vector v                           *)
(***************************************************************************)
VARIABLES div_pc, div_n, div_m, div_st

divVars == <<div_pc, div_n, div_m, div_st>>

(***************************************************************************)
(* State of the CRT compiler and of the runs of the compiled program.      *)
(*   crt_pc      "init" before fmpz_crt_precompute_p, "compiled" after      *)
(*   moduli      the moduli handed to fmpz_crt_precompute_p                 *)
(*   P           the fmpz_crt_struct                                        *)
(*   crt_ret     the value fmpz_crt_precompute_p returned (-1: not yet)     *)
(*   run_pc      per run: "idle", "run", "done"                            *)
(*   run_i       per run: the loop index i of _fmpz_crt_run_p              *)
(*   run_in      per run: the inputs array                                  *)
(*   run_rbw     per run: an instruction read a scratch slot that this run  *)
(*               had not written                                            *)
(*   run_written per run: the scratch slots written so far                  *)
(*   run_g       per run: what the scratch slots held on entry              *)
(*   run_overlap per run: it ran an instruction while another run was       *)
(*               between its first and its last instruction                 *)
(*   scratch     the scratch arrays, by the address the caller passed       *)
(***************************************************************************)
VARIABLES crt_pc, moduli, P, crt_ret,
          run_pc, run_i, run_in, run_rbw, run_written, run_g, run_overlap,
          scratch

crtVars == <<crt_pc, moduli, P, crt_ret>>

runVars == <<run_pc, run_i, run_in, run_rbw, run_written, run_g, run_overlap,
             scratch>>

\* the callers of one compiled program
RunIds == {1, 2}

ScratchShared(r) == 1

\* every call brings its own outputs array (TMP_ALLOC in fmpz_mpoly_crt)
ScratchOf(r) == r

\* moduli, residues and initial scratch contents the model draws from
ModValues == {0, 1, 2, 3, 5, 6}

InputValues == {-2, 1, 3}

ParModValues == {2, 3, 5}

ParInputValues == {0, 1}

Garbage == {0, 9}

ExampleModuli ==
    { [k \in 0..1 |-> IF k = 0 THEN 6 ELSE 10],
      [k \in 0..2 |-> CASE k = 0 -> 7 [] k = 1 -> 11 [] OTHER -> 13],
      [k \in 0..1 |-> IF k = 0 THEN 3 ELSE 5],
      [k \in 0..4 |-> <<2, 3, 5, 7, 11>>[k + 1]] }

ExampleInputs ==
    { [k \in 0..2 |-> k + 1], [k \in 0..1 |-> k + 2] }

ArraysUpTo(n, S) == UNION { Arrays(len, S) : len \in 1..n }

CrtIdle ==
    /\ crt_pc = "init"
    /\ P = fmpz_crt_init
    /\ crt_ret = -1
    /\ run_pc = [r \in RunIds |-> "idle"]
    /\ run_i = [r \in RunIds |-> 0]
    /\ run_in = [r \in RunIds |-> EmptyArr]
    /\ run_rbw = [r \in RunIds |-> FALSE]
    /\ run_written = [r \in RunIds |-> {}]
    /\ run_g = [r \in RunIds |-> 0]
    /\ run_overlap = [r \in RunIds |-> FALSE]
    /\ scratch = [r \in RunIds |-> EmptyArr]

\* fmpz_crt_precompute_p, with the order qsort left the equal degrees in
Precompute ==
    /\ crt_pc = "init"
    /\ \E perm \in SortedPerms(moduli) :
          P' = fmpz_crt_precompute_p(P, moduli, perm)
    /\ crt_ret' = P'.good
    /\ crt_pc' = "compiled"
    /\ UNCHANGED <<moduli, runVars, divVars, gcdVars, wrapVars, mcVars>>

\* a caller enters _fmpz_crt_run_p with its inputs and its scratch array,
\* whose slots hold whatever the caller left there
StartRun(r, inputSet, garbageSet) ==
    /\ crt_pc = "compiled"
    /\ run_pc[r] = "idle"
    /\ \E inp \in inputSet, g \in garbageSet :
          /\ run_in' = [run_in EXCEPT ![r] = inp]
          /\ run_g' = [run_g EXCEPT ![r] = g]
          /\ scratch' = [scratch EXCEPT ![ScratchOf(r)] =
                            [k \in 0..(P.localsize - 1) |-> g]]
    /\ run_pc' = [run_pc EXCEPT ![r] = "run"]
    /\ run_i' = [run_i EXCEPT ![r] = 0]
    /\ UNCHANGED <<crtVars, run_rbw, run_written, run_overlap, divVars, gcdVars, wrapVars, mcVars>>

\* one iteration of the loop of _fmpz_crt_run_p
RunStep(r) ==
    /\ run_pc[r] = "run"
    /\ run_i[r] < P.length
    /\ scratch' = [scratch EXCEPT ![ScratchOf(r)] =
                      RunInstr(scratch[ScratchOf(r)], P, run_in[r], run_i[r])]
    /\ run_rbw' = [run_rbw EXCEPT ![r] =
                      @ \/ ~(SlotsRead(P, run_i[r]) \subseteq run_written[r])]
    /\ run_written' = [run_written EXCEPT ![r] =
                      @ \cup {P.prog[run_i[r]].a_idx, P.temp1loc, P.temp2loc}]
    /\ run_i' = [run_i EXCEPT ![r] = @ + 1]
    /\ run_overlap' = [run_overlap EXCEPT ![r] =
                      @ \/ \E q \in RunIds \ {r} :
                              run_pc[q] = "run" /\ 0 < run_i[q] /\ run_i[q] < P.length]
    /\ UNCHANGED <<crtVars, run_pc, run_in, run_g, divVars, gcdVars, wrapVars, mcVars>>

\* the loop of _fmpz_crt_run_p ends
RunReturn(r) ==
    /\ run_pc[r] = "run"
    /\ run_i[r] >= P.length
    /\ run_pc' = [run_pc EXCEPT ![r] = "done"]
    /\ UNCHANGED <<crtVars, run_i, run_in, run_rbw, run_written, run_g,
                   run_overlap, scratch, divVars, gcdVars, wrapVars, mcVars>>

DivIdle ==
    /\ div_pc = "call"
    /\ div_st = [l |-> 0, i |-> 0, v |-> EmptyArr]

DivEnter ==
    /\ div_pc = "call"
    /\ div_st' = DivideEnter(div_n, div_m)
    /\ div_pc' = "loop"
    /\ UNCHANGED <<div_n, div_m, crtVars, runVars, gcdVars, wrapVars, mcVars>>

DivSplit ==
    /\ div_pc = "loop"
    /\ div_st.i < div_st.l
    /\ CanSplit(div_st.v, div_st.i, div_n, div_m)
    /\ div_st' = DivideIter(div_st, div_n, div_m)
    /\ UNCHANGED <<div_pc, div_n, div_m, crtVars, runVars, gcdVars, wrapVars, mcVars>>

DivAdvance ==
    /\ div_pc = "loop"
    /\ div_st.i < div_st.l
    /\ ~CanSplit(div_st.v, div_st.i, div_n, div_m)
    /\ div_st' = DivideIter(div_st, div_n, div_m)
    /\ UNCHANGED <<div_pc, div_n, div_m, crtVars, runVars, gcdVars, wrapVars, mcVars>>

DivReturn ==
    /\ div_pc = "loop"
    /\ div_st.i >= div_st.l
    /\ div_pc' = "done"
    /\ UNCHANGED <<div_n, div_m, div_st, crtVars, runVars, gcdVars, wrapVars, mcVars>>

\* the gcd in Z[X] by the primitive remainder sequence, on dense arrays
ZContent(f) == fmpz_mpolyu_content_fmpz(UFromDense(f, PDeg(f)))

ZPrim(f) == IF ALen(f) = 0 THEN f ELSE [e \in DOMAIN f |-> f[e] \div ZContent(f)]

RECURSIVE ZPRem(_, _)
ZPRem(f, g) ==
    IF PDeg(f) < PDeg(g) THEN f
    ELSE ZPRem(PTrim([e \in 0..(PDeg(f) - 1) |->
                        g[PDeg(g)] * f[e]
                        - (IF e >= PDeg(f) - PDeg(g)
                           THEN f[PDeg(f)] * g[e - (PDeg(f) - PDeg(g))] ELSE 0)]), g)

RECURSIVE ZGcd(_, _)
ZGcd(f, g) == IF ALen(g) = 0 THEN f ELSE ZGcd(g, ZPrim(ZPRem(f, g)))

\* the gcd of a and b in Z[X] with positive leading coefficient
RefGcd(a, b) ==
    LET d == ZGcd(ZPrim(UToDense(a)), ZPrim(UToDense(b)))
        c == fmpz_gcd(fmpz_mpolyu_content_fmpz(a), fmpz_mpolyu_content_fmpz(b))
    IN  UFromDense([e \in DOMAIN d |-> IF d[PDeg(d)] < 0 THEN -(c * d[e]) ELSE c * d[e]],
                   PDeg(d))

(***************************************************************************)
(* fmpz_mpolyu_gcd_brown_threaded.                                         *)
(***************************************************************************)
restVars == <<crtVars, runVars, divVars, wrapVars, mcVars>>

num_threads == num_workers + 1

SplitArgInit ==
    [G |-> EmptyArr, Abar |-> EmptyArr, Bbar |-> EmptyArr, modulus |-> 0,
     image_count |-> 0, required_images |-> 0, num_workers |-> 0,
     p |-> 0, flag_at_top |-> 0, master_handle |-> -1,
     worker_handles |-> << >>, last |-> "none", acc_primes |-> {},
     pc |-> "idle"]

JoinArgInit ==
    [G |-> EmptyArr, Abar |-> EmptyArr, Bbar |-> EmptyArr,
     Gmax |-> 0, Gsum |-> 0, Abarmax |-> 0, Abarsum |-> 0,
     Bbarmax |-> 0, Bbarsum |-> 0, pc |-> "idle"]

JoinBaseInit ==
    [G_exp |-> -1, Abar_exp |-> -1, Bbar_exp |-> -1, CRT |-> fmpz_crt_init,
     gptrs |-> EmptyArr, abarptrs |-> EmptyArr, bbarptrs |-> EmptyArr,
     mptrs |-> EmptyArr, num_images |-> 0]

\* the values of the variables at the label compute_split, for the
\* arguments A = a, B = b and num_workers = w
GcdEntryRec(a, b, w) ==
    LET cA == fmpz_mpolyu_content_fmpz(a)
        cB == fmpz_mpolyu_content_fmpz(b)
        A1 == fmpz_mpolyu_divexact_fmpz(a, cA)
        B1 == fmpz_mpolyu_divexact_fmpz(b, cB)
        g  == fmpz_gcd(fmpz_mpolyu_leadcoeff(A1), fmpz_mpolyu_leadcoeff(B1))
    IN  [inA |-> a, inB |-> b, num_workers |-> w,
         cG |-> fmpz_gcd(cA, cB),
         cAbar |-> cA \div fmpz_gcd(cA, cB),
         cBbar |-> cB \div fmpz_gcd(cA, cB),
         A |-> A1, B |-> B1,
         gamma |-> g,
         splitbase |-> [p |-> FirstPrimeFloor, gcd_is_one |-> 0],
         bound |-> 2 * (Max(fmpz_mpolyu_height(A1), fmpz_mpolyu_height(B1)) * g),
         modulus |-> 1,
         G |-> EmptyArr, Abar |-> EmptyArr, Bbar |-> EmptyArr,
         success |-> -1,
         splitargs |-> [i \in 0..w |-> SplitArgInit],
         num_master_threads |-> 0,
         joinbase |-> JoinBaseInit,
         joinargs |-> [i \in 0..w |-> JoinArgInit],
         split_mutex |-> -1,
         gcd_log |-> [primes |-> << >>, flag_writes |-> << >>, claims |-> << >>],
         mgcd_declines |-> {},
         gcd_pc |-> "compute_split"]

\* the variables of the call hold the values of the record r
GcdState(r) ==
    /\ inA = r.inA /\ inB = r.inB /\ num_workers = r.num_workers
    /\ cG = r.cG /\ cAbar = r.cAbar /\ cBbar = r.cBbar
    /\ A = r.A /\ B = r.B
    /\ gamma = r.gamma
    /\ splitbase = r.splitbase
    /\ bound = r.bound
    /\ modulus = r.modulus
    /\ G = r.G /\ Abar = r.Abar /\ Bbar = r.Bbar
    /\ success = r.success
    /\ splitargs = r.splitargs
    /\ num_master_threads = r.num_master_threads
    /\ joinbase = r.joinbase
    /\ joinargs = r.joinargs
    /\ split_mutex = r.split_mutex
    /\ gcd_log = r.gcd_log
    /\ mgcd_declines = r.mgcd_declines
    /\ gcd_pc = r.gcd_pc

\* the function entry up to the label compute_split
GcdEntry(a, b, w) == GcdState(GcdEntryRec(a, b, w))

\* the same entry as a step of the caller
GcdCall(a, b, w) ==
    LET r == GcdEntryRec(a, b, w)
    IN  /\ inA' = r.inA /\ inB' = r.inB /\ num_workers' = r.num_workers
        /\ cG' = r.cG /\ cAbar' = r.cAbar /\ cBbar' = r.cBbar
        /\ A' = r.A /\ B' = r.B
        /\ gamma' = r.gamma
        /\ splitbase' = r.splitbase
        /\ bound' = r.bound
        /\ modulus' = r.modulus
        /\ G' = r.G /\ Abar' = r.Abar /\ Bbar' = r.Bbar
        /\ success' = r.success
        /\ splitargs' = r.splitargs
        /\ num_master_threads' = r.num_master_threads
        /\ joinbase' = r.joinbase
        /\ joinargs' = r.joinargs
        /\ split_mutex' = r.split_mutex
        /\ gcd_log' = r.gcd_log
        /\ mgcd_declines' = r.mgcd_declines
        /\ gcd_pc' = r.gcd_pc

\* no call of fmpz_mpolyu_gcd_brown_threaded has been made
GcdIdle == GcdState([GcdEntryRec(fmpz_mpolyu_one, fmpz_mpolyu_one, 0)
                        EXCEPT !.gcd_pc = "idle"])

MasterIds == 0..(num_master_threads - 1)

RECURSIVE HandlesBeforeSkipsMasters(_, _)
HandlesBeforeSkipsMasters(v, i) ==
    IF i = 0 THEN 0 ELSE HandlesBeforeSkipsMasters(v, i - 1) + (v[i - 1].den - 1)

\* the value of k when the distribution loop reaches master i: one handle
\* for each earlier master but the first, and one for each of their workers
RECURSIVE HandlesBefore(_, _)
HandlesBefore(v, i) ==
    IF i = 0 THEN 0
    ELSE HandlesBefore(v, i - 1) + (IF i - 1 = 0 THEN 0 ELSE 1) + (v[i - 1].den - 1)

SplitBaseRestarted(base) == [base EXCEPT !.gcd_is_one = 0, !.p = FirstPrimeFloor]

\* splitbase->gcd_is_one = 0; splitbase->p keeps its value from round to round
SplitBaseAtRound(base) == [base EXCEPT !.gcd_is_one = 0]

\* compute_split: the number of images still needed is divided over masters
ComputeSplit ==
    /\ gcd_pc = "compute_split"
    /\ LET temp == fmpz_cdiv_q(bound, modulus) + 2
           d    == divide_master_threads(fmpz_clog_ui(temp, splitbase.p), num_threads)
       IN  /\ num_master_threads' = d.l
           /\ splitargs' =
                [i \in DOMAIN splitargs |->
                   IF i < d.l
                   THEN [splitargs[i] EXCEPT
                           !.required_images = d.v[i].num,
                           !.num_workers = d.v[i].den - 1,
                           !.master_handle =
                               IF i = 0 THEN -1 ELSE HandlesBefore(d.v, i),
                           !.worker_handles =
                               [j \in 1..(d.v[i].den - 1) |->
                                   HandlesBefore(d.v, i) + (IF i = 0 THEN 0 ELSE 1)
                                   + j - 1],
                           \* _splitworker: fmpz_one(arg->modulus); arg->image_count = 0
                           !.modulus = 1,
                           !.image_count = 0,
                           !.last = "none",
                           !.acc_primes = {},
                           !.pc = "loop"]
                   ELSE splitargs[i]]
    /\ splitbase' = SplitBaseAtRound(splitbase)
    /\ gcd_pc' = "split"
    /\ UNCHANGED <<restVars, split_mutex, gcd_log, gcdArgs, A, B, bound, modulus, gcdOut, joinbase,
                   joinargs>>

MutexIgnored(m) == TRUE

\* pthread_mutex_lock returns when nobody holds the mutex
MutexFree(m) == m = -1

NeedsImagesOneMore(arg) == arg.image_count <= arg.required_images

\* while (arg->image_count < arg->required_images)
NeedsImages(arg) == arg.image_count < arg.required_images

\* the head of the while loop, pthread_mutex_lock and p = base->p
SplitLock(i) ==
    /\ gcd_pc = "split"
    /\ i \in MasterIds
    /\ splitargs[i].pc = "loop"
    /\ IF NeedsImages(splitargs[i])
       THEN /\ MutexFree(split_mutex)
            /\ split_mutex' = i
            /\ splitargs' = [splitargs EXCEPT
                                ![i].p = splitbase.p,
                                ![i].flag_at_top = splitbase.gcd_is_one,
                                ![i].last = "none",
                                ![i].pc = "locked"]
       ELSE /\ splitargs' = [splitargs EXCEPT ![i].last = "none", ![i].pc = "done"]
            /\ UNCHANGED split_mutex
    /\ UNCHANGED <<restVars, gcd_log, gcd_pc, gcdArgs, A, B, bound, modulus,
                   gcdOut, splitbase, num_master_threads, joinbase, joinargs>>

\* the rest of the "get prime" critical section, up to pthread_mutex_unlock
SplitGetPrime(i) ==
    /\ gcd_pc = "split"
    /\ i \in MasterIds
    /\ splitargs[i].pc = "locked"
    /\ IF splitargs[i].p < UWORD_MAX_PRIME
       THEN /\ splitbase' = [splitbase EXCEPT !.p = n_nextprime(splitbase.p)]
            /\ splitargs' = [splitargs EXCEPT ![i].p = n_nextprime(splitbase.p),
                                              ![i].pc = "image"]
            /\ gcd_log' = [gcd_log EXCEPT
                             !.primes = Append(@, n_nextprime(splitbase.p))]
       ELSE /\ splitargs' = [splitargs EXCEPT ![i].pc = "done"]
            /\ UNCHANGED <<splitbase, gcd_log>>
    /\ split_mutex' = -1
    /\ UNCHANGED <<restVars, gcd_pc, gcdArgs, A, B, bound, modulus, gcdOut,
                   num_master_threads, joinbase, joinargs>>

\* the comparison of the accumulated G with a new image Gp
ShapeCmp(g, gp) ==
    IF g[0].exp # gp[0].exp
    THEN (IF g[0].exp > gp[0].exp THEN 1 ELSE -1)
    ELSE mpoly_monomial_cmp(g[0].coeff[0].exp, gp[0].coeff[0].exp)

KeepOnSmallerDegree(arg, cmp) == arg

\* else if (cmp > 0) { fmpz_one(arg->modulus); arg->image_count = 0; }
ResetOnSmallerDegree(arg, cmp) ==
    IF cmp > 0 THEN [arg EXCEPT !.modulus = 1, !.image_count = 0] ELSE arg

SkipImageResets(arg, why) ==
    [arg EXCEPT !.modulus = 1, !.image_count = 0, !.last = why, !.pc = "loop"]

\* continue: the turn ends, the next one starts at the head of the loop
SkipImage(arg, why) == [arg EXCEPT !.last = why, !.pc = "loop"]

\* the rest of the loop body once Gp is known not to be a constant
AddImage(arg, r, p, gammared) ==
    LET cmp == IF arg.modulus # 1 THEN ShapeCmp(arg.G, r.Gp) ELSE 0
        a1  == ResetOnSmallerDegree(arg, cmp)
        Gp  == nmod_mpolyun_scalar_mul_nmod(r.Gp, gammared, p)
    IN  IF cmp < 0 THEN SkipImage(arg, "skip_shape")
        ELSE [a1 EXCEPT
                !.G = IF a1.modulus # 1
                      THEN fmpz_mpolyu_intp_crt_p_mpolyun(a1.G, a1.modulus, Gp, p)
                      ELSE fmpz_mpolyu_intp_lift_p_mpolyun(Gp, p),
                !.Abar = IF a1.modulus # 1
                         THEN fmpz_mpolyu_intp_crt_p_mpolyun(a1.Abar, a1.modulus, r.Abarp, p)
                         ELSE fmpz_mpolyu_intp_lift_p_mpolyun(r.Abarp, p),
                !.Bbar = IF a1.modulus # 1
                         THEN fmpz_mpolyu_intp_crt_p_mpolyun(a1.Bbar, a1.modulus, r.Bbarp, p)
                         ELSE fmpz_mpolyu_intp_lift_p_mpolyun(r.Bbarp, p),
                !.modulus = a1.modulus * p,
                !.image_count = a1.image_count + 1,
                !.last = IF cmp > 0 THEN "reset"
                         ELSE IF arg.modulus # 1 THEN "crt" ELSE "first",
                !.acc_primes = (IF cmp > 0 THEN {} ELSE arg.acc_primes) \cup {p},
                !.pc = "loop"]

\* success of nmod_mpolyun_gcd_brown_smprime(_threaded) at the prime p
MgcdSuccess(p) == p \notin mgcd_declines

\* one image: the loop body after the critical section
SplitImage(i) ==
    /\ gcd_pc = "split"
    /\ i \in MasterIds
    /\ splitargs[i].pc = "image"
    /\ LET arg == splitargs[i]
           p   == arg.p
           gammared == gamma % p
           r   == nmod_mpolyun_gcd_brown_smprime(
                      fmpz_mpolyu_intp_reduce_p_mpolyun(A, p),
                      fmpz_mpolyu_intp_reduce_p_mpolyun(B, p), p)
       IN  IF gammared = 0
           THEN /\ splitargs' = [splitargs EXCEPT ![i] = SkipImage(arg, "skip_gamma")]
                /\ UNCHANGED <<splitbase, gcd_log>>
           ELSE IF ~MgcdSuccess(p)
           THEN \* if (!success) continue
                /\ splitargs' = [splitargs EXCEPT ![i] = SkipImage(arg, "skip_mgcd")]
                /\ UNCHANGED <<splitbase, gcd_log>>
           ELSE IF splitbase.gcd_is_one = 1
           THEN /\ splitargs' = [splitargs EXCEPT ![i].last = "saw_flag",
                                                  ![i].pc = "done"]
                /\ UNCHANGED <<splitbase, gcd_log>>
           ELSE IF nmod_mpolyun_is_nonzero_nmod(r.Gp)
           THEN /\ splitbase' = [splitbase EXCEPT !.gcd_is_one = 1]
                /\ splitargs' = [splitargs EXCEPT ![i].last = "set_flag",
                                                  ![i].pc = "done"]
                /\ gcd_log' = [gcd_log EXCEPT !.flag_writes =
                                 Append(@, [master |-> i, holder |-> split_mutex])]
           ELSE /\ splitargs' = [splitargs EXCEPT ![i] = AddImage(arg, r, p, gammared)]
                /\ UNCHANGED <<splitbase, gcd_log>>
    /\ UNCHANGED <<restVars, split_mutex, gcd_pc, gcdArgs, A, B, bound, modulus, gcdOut,
                   num_master_threads, joinbase, joinargs>>

MastersDoneSkipped == TRUE

\* every thread_pool_wait of lines 1068-1071 has returned (and the inline
\* call of _splitworker for master 0)
MastersDone == \A i \in MasterIds : splitargs[i].pc = "done"

PutContentNoCofactors(g, abar, bbar) ==
    /\ G' = fmpz_mpolyu_mul_fmpz(g, cG)
    /\ Abar' = abar
    /\ Bbar' = bbar
    /\ success' = 1

\* successful_put_content
PutContent(g, abar, bbar) ==
    /\ G' = fmpz_mpolyu_mul_fmpz(g, cG)
    /\ Abar' = fmpz_mpolyu_mul_fmpz(abar, cAbar)
    /\ Bbar' = fmpz_mpolyu_mul_fmpz(bbar, cBbar)
    /\ success' = 1

\* if (splitbase->gcd_is_one) { G = 1; swap(Abar, A); swap(Bbar, B); ... }
SplitGcdIsOne ==
    /\ gcd_pc = "split"
    /\ MastersDone
    /\ splitbase.gcd_is_one = 1
    /\ PutContent(fmpz_mpolyu_one, A, B)
    /\ A' = Abar
    /\ B' = Bbar
    /\ gcd_pc' = "return"
    /\ UNCHANGED <<restVars, split_mutex, gcd_log, gcdArgs, bound, modulus, splitbase, splitargs,
                   num_master_threads, joinbase, joinargs>>

ShortMasterIgnored(arg) == FALSE

ShortMaster(arg) == arg.image_count < arg.required_images

\* "ran out of rational primes - must fail"
SplitRanOut ==
    /\ gcd_pc = "split"
    /\ MastersDone
    /\ splitbase.gcd_is_one = 0
    /\ \E i \in MasterIds : ShortMaster(splitargs[i])
    /\ success' = 0
    /\ gcd_pc' = "return"
    /\ UNCHANGED <<restVars, split_mutex, gcd_log, gcdArgs, A, B, bound, modulus, G, Abar, Bbar,
                   splitbase,
                   splitargs, num_master_threads, joinbase, joinargs>>

(***************************************************************************)
(* The images to join and the join workers.                                *)
(***************************************************************************)
Image(g, abar, bbar, m) == [G |-> g, Abar |-> abar, Bbar |-> bbar, modulus |-> m]

KeepUnluckyImages(imgs, cmp) == imgs

\* if (cmp > 0) num_images = 0   "splitarg[0], ..., splitarg[i - 1] were unlucky"
DropUnluckyImages(imgs, cmp) == IF cmp > 0 THEN EmptyArr ELSE imgs

\* for (; i < num_master_threads; i++): compare splitargs[i] with gptrs[0]
RECURSIVE SelectImages(_, _, _, _)
SelectImages(imgs, args, i, l) ==
    IF i >= l THEN imgs
    ELSE LET cmp == ShapeCmp(imgs[0].G, args[i].G)
         IN  IF cmp < 0
             THEN SelectImages(imgs, args, i + 1, l)
             ELSE SelectImages(
                    APush(DropUnluckyImages(imgs, cmp),
                          Image(args[i].G, args[i].Abar, args[i].Bbar, args[i].modulus)),
                    args, i + 1, l)

\* "find images to join"
FindImages ==
    IF modulus # 1
    THEN SelectImages(APush(EmptyArr, Image(G, Abar, Bbar, modulus)),
                      splitargs, 0, num_master_threads)
    ELSE SelectImages(APush(EmptyArr, Image(splitargs[0].G, splitargs[0].Abar,
                                            splitargs[0].Bbar, splitargs[0].modulus)),
                      splitargs, 1, num_master_threads)

\* every master reached its goal: precompute the CRT and set up the join
JoinSetup ==
    /\ gcd_pc = "split"
    /\ MastersDone
    /\ splitbase.gcd_is_one = 0
    /\ \A i \in MasterIds : ~ShortMaster(splitargs[i])
    /\ LET imgs  == FindImages
           mptrs == [k \in DOMAIN imgs |-> imgs[k].modulus]
       IN  \E perm \in SortedPerms(mptrs) :
             joinbase' =
               [G_exp      |-> imgs[0].G[0].exp,
                Abar_exp   |-> imgs[0].Abar[0].exp,
                Bbar_exp   |-> imgs[0].Bbar[0].exp,
                CRT        |-> fmpz_crt_precompute_p(fmpz_crt_init, mptrs, perm),
                gptrs      |-> [k \in DOMAIN imgs |-> imgs[k].G],
                abarptrs   |-> [k \in DOMAIN imgs |-> imgs[k].Abar],
                bbarptrs   |-> [k \in DOMAIN imgs |-> imgs[k].Bbar],
                mptrs      |-> mptrs,
                num_images |-> ALen(imgs)]
    /\ joinargs' = [w \in DOMAIN joinargs |-> [JoinArgInit EXCEPT !.pc = "run"]]
    /\ gcd_log' = [gcd_log EXCEPT !.claims = << >>]
    /\ gcd_pc' = "join"
    /\ UNCHANGED <<restVars, split_mutex, gcdArgs, A, B, bound, modulus, gcdOut,
                   splitbase, splitargs,
                   num_master_threads>>

\* the gather reads G->exps[0] of every master (of master 0 as gptrs[0] or in
\* the comparison, of the others in the comparison)
GatherDefined == \A i \in MasterIds : ALen(splitargs[i].G) > 0

\* the gather reads exps[0] of a polynomial of length 0, which
\* fmpz_mpolyu_init left without an exps array: the call stops there
\* ("crash") or goes on with whatever was read ("garbage")
GatherUndefined ==
    /\ gcd_pc = "split"
    /\ MastersDone
    /\ splitbase.gcd_is_one = 0
    /\ \A i \in MasterIds : ~ShortMaster(splitargs[i])
    /\ ~GatherDefined
    /\ gcd_pc' \in {"crash", "garbage"}
    /\ UNCHANGED <<restVars, split_mutex, gcd_log, gcdArgs, A, B, bound, modulus, gcdOut,
                   splitbase, splitargs, num_master_threads, joinbase, joinargs>>

JoinClaimKeepsExp(e) == e

JoinClaimSkipsOne(e) == e - 2

\* base->G_exp = our_G_exp - 1 (and the same for Abar_exp, Bbar_exp)
JoinClaim(e) == e - 1

\* one turn of the loop of _joinworker that finds an exponent to work on
JoinWork(w) ==
    /\ gcd_pc = "join"
    /\ w \in DOMAIN joinargs
    /\ joinargs[w].pc = "run"
    /\ LET arg == joinargs[w]
           b   == joinbase
       IN  IF b.G_exp >= 0
           THEN LET r == fmpz_mpolyu_crt_exp(b.CRT, arg.Gmax, arg.Gsum, arg.G,
                                             b.G_exp, b.gptrs)
                IN  /\ joinbase' = [b EXCEPT !.G_exp = JoinClaim(b.G_exp)]
                    /\ gcd_log' = [gcd_log EXCEPT !.claims = Append(@,
                                     [part |-> "G", exp |-> b.G_exp, worker |-> w])]
                    /\ joinargs' = [joinargs EXCEPT ![w].G = r.A,
                                       ![w].Gmax = r.Amax, ![w].Gsum = r.Asum]
           ELSE IF b.Abar_exp >= 0
           THEN LET r == fmpz_mpolyu_crt_exp(b.CRT, arg.Abarmax, arg.Abarsum, arg.Abar,
                                             b.Abar_exp, b.abarptrs)
                IN  /\ joinbase' = [b EXCEPT !.Abar_exp = JoinClaim(b.Abar_exp)]
                    /\ gcd_log' = [gcd_log EXCEPT !.claims = Append(@,
                                     [part |-> "Abar", exp |-> b.Abar_exp, worker |-> w])]
                    /\ joinargs' = [joinargs EXCEPT ![w].Abar = r.A,
                                       ![w].Abarmax = r.Amax, ![w].Abarsum = r.Asum]
           ELSE LET r == fmpz_mpolyu_crt_exp(b.CRT, arg.Bbarmax, arg.Bbarsum, arg.Bbar,
                                             b.Bbar_exp, b.bbarptrs)
                IN  /\ b.Bbar_exp >= 0
                    /\ joinbase' = [b EXCEPT !.Bbar_exp = JoinClaim(b.Bbar_exp)]
                    /\ gcd_log' = [gcd_log EXCEPT !.claims = Append(@,
                                     [part |-> "Bbar", exp |-> b.Bbar_exp, worker |-> w])]
                    /\ joinargs' = [joinargs EXCEPT ![w].Bbar = r.A,
                                       ![w].Bbarmax = r.Amax, ![w].Bbarsum = r.Asum]
    /\ UNCHANGED <<restVars, split_mutex, gcd_pc, gcdArgs, A, B, bound, modulus,
                   gcdOut, splitbase, splitargs, num_master_threads>>

\* the turn of the loop that finds all three counters negative
JoinReturn(w) ==
    /\ gcd_pc = "join"
    /\ w \in DOMAIN joinargs
    /\ joinargs[w].pc = "run"
    /\ joinbase.G_exp < 0 /\ joinbase.Abar_exp < 0 /\ joinbase.Bbar_exp < 0
    /\ joinargs' = [joinargs EXCEPT ![w].pc = "done"]
    /\ UNCHANGED <<restVars, split_mutex, gcd_log, gcd_pc, gcdArgs, A, B, bound, modulus, gcdOut,
                   splitbase,
                   splitargs, num_master_threads, joinbase>>

\* every thread_pool_wait of lines 1188-1191 has returned (and the inline
\* call of _joinworker for the last worker)
JoinersDone == \A w \in DOMAIN joinargs : joinargs[w].pc = "done"

RECURSIVE ProductOf(_, _)
ProductOf(m, k) == IF k >= ALen(m) THEN 1 ELSE m[k] * ProductOf(m, k + 1)

RECURSIVE SumOver(_, _, _)
SumOver(args, f, k) == IF k >= ALen(args) THEN 0 ELSE args[k][f] + SumOver(args, f, k + 1)

RECURSIVE MaxOver(_, _, _)
MaxOver(args, f, k) ==
    IF k >= ALen(args) THEN 0 ELSE Max(args[k][f], MaxOver(args, f, k + 1))

\* the results of the three final joins and the updated modulus
JoinedG == final_join([w \in DOMAIN joinargs |-> joinargs[w].G])

JoinedAbar == final_join([w \in DOMAIN joinargs |-> joinargs[w].Abar])

JoinedBbar == final_join([w \in DOMAIN joinargs |-> joinargs[w].Bbar])

JoinedModulus == ProductOf(joinbase.mptrs, 0)

DivisibleAlways(m) == TRUE

DivisibleWithMax(m) ==
    /\ 2 * Max(SumOver(joinargs, "Abarsum", 0) * MaxOver(joinargs, "Gmax", 0),
               MaxOver(joinargs, "Abarmax", 0) * SumOver(joinargs, "Gsum", 0)) < m
    /\ 2 * Max(SumOver(joinargs, "Bbarsum", 0) * MaxOver(joinargs, "Gmax", 0),
               MaxOver(joinargs, "Bbarmax", 0) * SumOver(joinargs, "Gsum", 0)) < m

\* the divisibility check on the heights gathered by the join workers
Divisible(m) ==
    LET gnm == MaxOver(joinargs, "Gmax", 0)
        gns == SumOver(joinargs, "Gsum", 0)
        anm == MaxOver(joinargs, "Abarmax", 0)
        ans == SumOver(joinargs, "Abarsum", 0)
        bnm == MaxOver(joinargs, "Bbarmax", 0)
        bns == SumOver(joinargs, "Bbarsum", 0)
    IN  /\ 2 * Min(ans * gnm, anm * gns) < m
        /\ 2 * Min(bns * gnm, bnm * gns) < m

JoinFinish ==
    /\ gcd_pc = "join"
    /\ JoinersDone
    /\ joinargs' = [w \in DOMAIN joinargs |-> JoinArgInit]
    /\ modulus' = JoinedModulus

\* if (fmpz_cmp(modulus, bound) <= 0) goto compute_split
JoinNeedsMore ==
    /\ JoinFinish
    /\ JoinedModulus <= bound
    /\ G' = JoinedG /\ Abar' = JoinedAbar /\ Bbar' = JoinedBbar
    /\ gcd_pc' = "compute_split"
    /\ UNCHANGED <<restVars, split_mutex, gcd_log, gcdArgs, A, B, bound, success, splitbase,
                   splitargs,
                   num_master_threads, joinbase>>

\* "divisiblity check failed - increase bound and try more"
JoinCheckFailed ==
    /\ JoinFinish
    /\ JoinedModulus > bound
    /\ ~Divisible(JoinedModulus)
    /\ G' = JoinedG /\ Abar' = JoinedAbar /\ Bbar' = JoinedBbar
    /\ bound' = JoinedModulus * Pow(2, 2 * WordBits)
    /\ gcd_pc' = "compute_split"
    /\ UNCHANGED <<restVars, split_mutex, gcd_log, gcdArgs, A, B, success, splitbase, splitargs,
                   num_master_threads, joinbase>>

RemoveContentSkipped(g) == g

\* fmpz_mpolyu_content_fmpz(temp, G); fmpz_mpolyu_divexact_fmpz(G, G, temp)
RemoveContent(g) == fmpz_mpolyu_divexact_fmpz(g, fmpz_mpolyu_content_fmpz(g))

\* successful: the content of G is removed and the cofactors are divided by
\* the leading coefficient left in G
JoinSuccessful ==
    /\ JoinFinish
    /\ JoinedModulus > bound
    /\ Divisible(JoinedModulus)
    /\ LET g == RemoveContent(JoinedG)
       IN  PutContent(g,
                      fmpz_mpolyu_divexact_fmpz(JoinedAbar, fmpz_mpolyu_leadcoeff(g)),
                      fmpz_mpolyu_divexact_fmpz(JoinedBbar, fmpz_mpolyu_leadcoeff(g)))
    /\ gcd_pc' = "return"
    /\ UNCHANGED <<restVars, split_mutex, gcd_log, gcdArgs, A, B, bound, splitbase, splitargs,
                   num_master_threads, joinbase>>

(***************************************************************************)
(* fmpz_mpoly_gcd_brown_threaded.                                          *)
(***************************************************************************)
FLINT_BITS == WordBits

fmpz_mpoly_is_zero(M) == ALen(M.terms) = 0

fmpz_mpoly_zero(bits) == [bits |-> bits, terms |-> EmptyArr]

MpolyNegSkipped(M) == M

fmpz_mpoly_neg(M) ==
    [M EXCEPT !.terms = [k \in DOMAIN M.terms |->
                           [M.terms[k] EXCEPT !.coeff = -M.terms[k].coeff]]]

\* perm[i] = i + 1 < nvars ? i + 1 : 0
Perm(n) == [i \in 0..(n - 1) |-> IF i + 1 < n THEN i + 1 ELSE 0]

SeqToArr(q) == [k \in 0..(Len(q) - 1) |-> q[k + 1]]

ArrToSeq(a) == [k \in 1..ALen(a) |-> a[k - 1]]

\* the exponents of variable v in the terms T, largest first, from d down
RECURSIVE VarExpsDown(_, _, _)
VarExpsDown(T, v, d) ==
    IF d < 0 THEN << >>
    ELSE IF \E k \in DOMAIN T : T[k].exp[v + 1] = d
         THEN <<d>> \o VarExpsDown(T, v, d - 1)
         ELSE VarExpsDown(T, v, d - 1)

MaxVarExp(T, v) ==
    IF ALen(T) = 0 THEN -1
    ELSE CHOOSE d \in {T[k].exp[v + 1] : k \in DOMAIN T} :
            \A k \in DOMAIN T : T[k].exp[v + 1] <= d

\* the terms of T with exponent e in variable v, as an fmpz_mpoly in the
\* variable u
CoeffOfVar(T, v, e, u) ==
    LET sel == SelectSeq(ArrToSeq(T), LAMBDA t : t.exp[v + 1] = e)
    IN  [k \in 0..(Len(sel) - 1) |->
            [exp |-> sel[k + 1].exp[u + 1], coeff |-> sel[k + 1].coeff]]

\* fmpz_mpoly_to_mpolyu_perm_deflate with shift 0 and stride 1, two
\* variables: variable perm[0] becomes X, variable perm[1] stays inside
fmpz_mpoly_to_mpolyu_perm_deflate(M, perm) ==
    LET es == VarExpsDown(M.terms, perm[0], MaxVarExp(M.terms, perm[0]))
    IN  [k \in 0..(Len(es) - 1) |->
            [exp |-> es[k + 1],
             coeff |-> CoeffOfVar(M.terms, perm[0], es[k + 1], perm[1])]]

RECURSIVE InflateFrom(_, _, _)
InflateFrom(U, perm, k) ==
    IF k >= ALen(U) THEN << >>
    ELSE [j \in 1..ALen(U[k].coeff) |->
            [exp |-> [v \in 1..2 |-> IF v = perm[0] + 1 THEN U[k].exp
                                     ELSE U[k].coeff[j - 1].exp],
             coeff |-> U[k].coeff[j - 1].coeff]]
         \o InflateFrom(U, perm, k + 1)

\* fmpz_mpoly_from_mpolyu_perm_inflate with shift 0 and stride 1
fmpz_mpoly_from_mpolyu_perm_inflate(bits, U, perm) ==
    [bits |-> bits, terms |-> SeqToArr(InflateFrom(U, perm, 0))]

\* _fmpz_mpoly_to_fmpz_poly_deflate, one variable
fmpz_mpoly_to_fmpz_poly_deflate(M) ==
    [k \in DOMAIN M.terms |->
        [exp |-> M.terms[k].exp[1], coeff |-> MPConst(M.terms[k].coeff)]]

\* _fmpz_mpoly_from_fmpz_poly_inflate, one variable
fmpz_mpoly_from_fmpz_poly_inflate(bits, g) ==
    [bits |-> bits,
     terms |-> [k \in DOMAIN g |-> [exp |-> <<g[k].exp>>,
                                    coeff |-> MPValue(g[k].coeff)]]]

\* fmpz_poly_gcd: the gcd in Z[X] with positive leading coefficient
fmpz_poly_gcd(a, b) == RefGcd(a, b)

thread_pool_get_size(pool) == pool.size

\* the k smallest elements of the set S, in increasing order
RECURSIVE Lowest(_, _)
Lowest(S, k) ==
    IF k <= 0 \/ S = {} THEN << >>
    ELSE LET h == CHOOSE x \in S : \A y \in S : x <= y
         IN  <<h>> \o Lowest(S \ {h}, k - 1)

\* thread_pool_request: up to max_num_workers handles nobody holds
thread_pool_request(pool, max_num_workers) == Lowest(pool.avail, max_num_workers)

thread_pool_give_back(pool, h) == [pool EXCEPT !.avail = @ \cup {h}]

\* max_num_workers as computed at lines 1435-1436
MaxNumWorkers == Min(thread_limit - 1, thread_pool_get_size(global_thread_pool))

\* G for a zero input: the other input, made positive (0 for two zeros)
ZeroInputGcd(M) ==
    IF fmpz_mpoly_is_zero(M) THEN fmpz_mpoly_zero(M.bits)
    ELSE IF M.terms[0].coeff < 0 THEN fmpz_mpoly_neg(M)
    ELSE M

\* if (fmpz_mpoly_is_zero(A, ctx)) { ... return 1; }
WrapZeroA ==
    /\ wrap_pc = "entry"
    /\ fmpz_mpoly_is_zero(mA)
    /\ mG' = ZeroInputGcd(mB)
    /\ wrap_ret' = 1
    /\ wrap_pc' = "return"
    /\ UNCHANGED <<mcVars, crtVars, runVars, divVars, gcdVars, wrapArgs,
                   global_thread_pool, handles, wrap_i, pool_log>>

\* if (fmpz_mpoly_is_zero(B, ctx)) { ... return 1; }
WrapZeroB ==
    /\ wrap_pc = "entry"
    /\ ~fmpz_mpoly_is_zero(mA)
    /\ fmpz_mpoly_is_zero(mB)
    /\ mG' = ZeroInputGcd(mA)
    /\ wrap_ret' = 1
    /\ wrap_pc' = "return"
    /\ UNCHANGED <<mcVars, crtVars, runVars, divVars, gcdVars, wrapArgs,
                   global_thread_pool, handles, wrap_i, pool_log>>

NoZeroInput == ~fmpz_mpoly_is_zero(mA) /\ ~fmpz_mpoly_is_zero(mB)

TooManyBits == mA.bits > FLINT_BITS \/ mB.bits > FLINT_BITS

\* if (A->bits > FLINT_BITS || B->bits > FLINT_BITS) return 0;
WrapTooManyBits ==
    /\ wrap_pc = "entry"
    /\ NoZeroInput
    /\ TooManyBits
    /\ wrap_ret' = 0
    /\ wrap_pc' = "return"
    /\ UNCHANGED <<mcVars, crtVars, runVars, divVars, gcdVars, wrapArgs, mG,
                   global_thread_pool, handles, wrap_i, pool_log>>

\* if (ctx->minfo->nvars == 1) { ... success = 1; goto cleanup1; }
WrapUnivariate ==
    /\ wrap_pc = "entry"
    /\ NoZeroInput
    /\ ~TooManyBits
    /\ nvars = 1
    /\ mG' = fmpz_mpoly_from_fmpz_poly_inflate(mA.bits,
                fmpz_poly_gcd(fmpz_mpoly_to_fmpz_poly_deflate(mA),
                              fmpz_mpoly_to_fmpz_poly_deflate(mB)))
    /\ wrap_ret' = 1
    /\ wrap_pc' = "return"
    /\ UNCHANGED <<mcVars, crtVars, runVars, divVars, gcdVars, wrapArgs,
                   global_thread_pool, handles, wrap_i, pool_log>>

\* the handles written by the request at lines 1433-1444, none when the
\* pool is not initialized or max_num_workers <= 0
RequestedHandles ==
    IF global_thread_pool.initialized /\ MaxNumWorkers > 0
    THEN thread_pool_request(global_thread_pool, MaxNumWorkers)
    ELSE << >>

Range(q) == {q[k] : k \in DOMAIN q}

\* lines 1414-1447: conversion, the request of handles, and the call of
\* fmpz_mpolyu_gcd_brown_threaded up to its label compute_split
WrapRequest ==
    /\ wrap_pc = "entry"
    /\ NoZeroInput
    /\ ~TooManyBits
    /\ nvars # 1
    /\ handles' = RequestedHandles
    /\ global_thread_pool' =
          [global_thread_pool EXCEPT !.avail = @ \ Range(RequestedHandles)]
    /\ pool_log' =
          IF global_thread_pool.initialized /\ MaxNumWorkers > 0
          THEN [pool_log EXCEPT !.requests = @ + 1,
                                !.obtained = @ \cup Range(RequestedHandles)]
          ELSE pool_log
    /\ GcdCall(fmpz_mpoly_to_mpolyu_perm_deflate(mA, Perm(nvars)),
               fmpz_mpoly_to_mpolyu_perm_deflate(mB, Perm(nvars)),
               Len(RequestedHandles))
    /\ wrap_pc' = "gcd"
    /\ UNCHANGED <<mcVars, crtVars, runVars, divVars, wrapArgs, mG, wrap_ret, wrap_i>>

\* fmpz_mpolyu_gcd_brown_threaded has returned: success is its value
WrapGcdReturned ==
    /\ wrap_pc = "gcd"
    /\ gcd_pc = "return"
    /\ wrap_i' = 0
    /\ wrap_pc' = "give_back"
    /\ UNCHANGED <<mcVars, crtVars, runVars, divVars, gcdVars, wrapArgs, mG, wrap_ret,
                   global_thread_pool, handles, pool_log>>

GiveBackDoneEarly(i, n) == i >= n - 1

\* the exit test of for (i = 0; i < num_workers; i++)
GiveBackDone(i, n) == i >= n

\* thread_pool_give_back(global_thread_pool, handles[i]);
WrapGiveBack ==
    /\ wrap_pc = "give_back"
    /\ ~GiveBackDone(wrap_i, Len(handles))
    /\ global_thread_pool' =
          thread_pool_give_back(global_thread_pool, handles[wrap_i + 1])
    /\ pool_log' = [pool_log EXCEPT !.given_back[handles[wrap_i + 1]] = @ + 1]
    /\ wrap_i' = wrap_i + 1
    /\ UNCHANGED <<mcVars, crtVars, runVars, divVars, gcdVars, wrapArgs, mG, wrap_ret,
                   wrap_pc, handles>>

\* lines 1458-1479: G is inflated and made positive when success
WrapFinish ==
    /\ wrap_pc = "give_back"
    /\ GiveBackDone(wrap_i, Len(handles))
    /\ mG' = IF success = 1
             THEN LET g == fmpz_mpoly_from_mpolyu_perm_inflate(
                              Max(mA.bits, mB.bits), G, Perm(nvars))
                  IN  IF g.terms[0].coeff < 0 THEN fmpz_mpoly_neg(g) ELSE g
             ELSE mG
    /\ wrap_ret' = success
    /\ wrap_pc' = "return"
    /\ UNCHANGED <<mcVars, crtVars, runVars, divVars, gcdVars, wrapArgs,
                   global_thread_pool, handles, wrap_i, pool_log>>

(***************************************************************************)
(* fmpz_mpoly_crt, one step per turn of its loops (lines 573-649).         *)
(***************************************************************************)
McStart(imgs, prog) ==
    [start  |-> [k \in DOMAIN imgs |-> 0],
     input  |-> [k \in DOMAIN imgs |-> -1],
     A      |-> EmptyArr,
     Amax   |-> 0,
     Asum   |-> 0,
     output |-> [k \in 0..(prog.localsize - 1) |-> 0]]

McLogInit(imgs) ==
    [top_start |-> [k \in DOMAIN imgs |-> 0], calls |-> << >>, undone |-> 0]

\* the number of terms of B[k] that input[0..k-1] point to
Consumed(st, k) == Cardinality({j \in DOMAIN st.input : j < k /\ st.input[j] # -1})

\* one turn of the for loop at line 602, for the index k
ScanStep(imgs, st, Aexp, k) ==
    IF st.start[k] >= ALen(imgs[k])
    THEN [st |-> [st EXCEPT !.input[k] = -1], Aexp |-> Aexp]
    ELSE IF mpoly_monomial_cmp(imgs[k][st.start[k]].exp, Aexp) = 0
    THEN [st |-> [st EXCEPT !.input[k] = st.start[k], !.start[k] = st.start[k] + 1],
          Aexp |-> Aexp]
    ELSE IF mpoly_monomial_cmp(imgs[k][st.start[k]].exp, Aexp) > 0
    THEN \* undo previous max's; goto found_max
         [st |-> TakeMax(UndoPreviousMax(st, k), k), Aexp |-> imgs[k][st.start[k]].exp]
    ELSE [st |-> [st EXCEPT !.input[k] = -1], Aexp |-> Aexp]

\* lines 582-600: the do-while that looks for a B[k] with a term left, then
\* found_max; or the break once every B[k] has been scanned completely
McTop ==
    /\ mc_pc = "top"
    /\ LET k0 == FirstUnscanned(mc_B, mc_st.start, 0)
       IN  IF k0 >= ALen(mc_B)
           THEN /\ mc_pc' = "done"
                /\ mc_st' = [mc_st EXCEPT !.input = [k \in DOMAIN mc_B |-> -1]]
                /\ mc_k' = k0
                /\ UNCHANGED <<mc_Aexp, mc_log>>
           ELSE /\ mc_pc' = "scan"
                /\ mc_st' = TakeMax(mc_st, k0)
                /\ mc_Aexp' = mc_B[k0][mc_st.start[k0]].exp
                /\ mc_k' = k0 + 1
                /\ mc_log' = [mc_log EXCEPT !.top_start = mc_st.start]
    /\ UNCHANGED <<mc_B, mc_P, crtVars, runVars, divVars, gcdVars, wrapVars>>

\* lines 602-626: one turn of for (k++; k < count; k++)
McScan ==
    /\ mc_pc = "scan"
    /\ mc_k < ALen(mc_B)
    /\ LET sc == ScanStep(mc_B, mc_st, mc_Aexp, mc_k)
       IN  /\ mc_st' = sc.st
           /\ mc_Aexp' = sc.Aexp
           /\ mc_log' = IF sc.Aexp # mc_Aexp
                        THEN [mc_log EXCEPT
                                !.undone = Max(@, Consumed(mc_st, mc_k))]
                        ELSE mc_log
    /\ mc_k' = mc_k + 1
    /\ UNCHANGED <<mc_pc, mc_B, mc_P, crtVars, runVars, divVars, gcdVars, wrapVars>>

\* lines 628-646: the runner is called on input, the term is stored
McRun ==
    /\ mc_pc = "scan"
    /\ mc_k >= ALen(mc_B)
    /\ LET out == fmpz_crt_run_p(mc_st.output, mc_P, TermInputs(mc_B, mc_st.input), 0)
       IN  /\ mc_st' = StoreTerm(mc_st, mc_Aexp, out)
           /\ mc_log' = [mc_log EXCEPT
                           !.calls = Append(@, [exp   |-> mc_Aexp,
                                                input |-> mc_st.input,
                                                out   |-> out[0]])]
    /\ mc_pc' = "top"
    /\ UNCHANGED <<mc_k, mc_Aexp, mc_B, mc_P, crtVars, runVars, divVars, gcdVars, wrapVars>>

vars == <<crtVars, runVars, divVars, gcdVars, wrapVars, mcVars>>

DivUnused == div_n = 1 /\ div_m = 1 /\ DivIdle

CrtUnused == moduli = EmptyArr /\ CrtIdle

GcdUnused == GcdEntry(fmpz_mpolyu_one, fmpz_mpolyu_one, 0)

PoolLogInit ==
    [requests |-> 0, obtained |-> {}, given_back |-> [h \in {} |-> 0]]

WrapUnused ==
    /\ wrap_pc = "unused"
    /\ mA = fmpz_mpoly_zero(FLINT_BITS) /\ mB = fmpz_mpoly_zero(FLINT_BITS)
    /\ mG = fmpz_mpoly_zero(FLINT_BITS)
    /\ nvars = 1 /\ thread_limit = 1
    /\ wrap_ret = -1
    /\ global_thread_pool = [initialized |-> FALSE, size |-> 0, avail |-> {}]
    /\ handles = << >>
    /\ wrap_i = 0
    /\ pool_log = PoolLogInit

McUnused ==
    /\ mc_pc = "unused"
    /\ mc_B = EmptyArr
    /\ mc_P = fmpz_crt_init
    /\ mc_st = McStart(EmptyArr, [localsize |-> 0])
    /\ mc_k = 0
    /\ mc_Aexp = 0
    /\ mc_log = McLogInit(EmptyArr)

(***************************************************************************)
(* SpecCrt: one program compiled from any list of up to MaxLen moduli,     *)
(* then run once on a zeroed scratch array (as fmpz_mpoly_crt does).        *)
(***************************************************************************)
InitCrt ==
    /\ moduli \in ArraysUpTo(MaxLen, ModValues) \cup ExampleModuli
    /\ CrtIdle
    /\ DivUnused
    /\ GcdUnused
    /\ WrapUnused
    /\ McUnused

RunInputs == Arrays(ALen(moduli), InputValues)
               \cup { inp \in ExampleInputs : ALen(inp) = ALen(moduli) }

NextCrt ==
    \/ Precompute
    \/ StartRun(1, RunInputs, {0})
    \/ RunStep(1)
    \/ RunReturn(1)

SpecCrt == InitCrt /\ [][NextCrt]_vars

(***************************************************************************)
(* SpecCrtPar: one compiled program run by two callers whose loops         *)
(* interleave instruction by instruction.                                  *)
(***************************************************************************)
InitCrtPar ==
    /\ moduli \in ArraysUpTo(MaxParLen, ParModValues)
    /\ CrtIdle
    /\ DivUnused
    /\ GcdUnused
    /\ WrapUnused
    /\ McUnused

ParRunInputs == Arrays(ALen(moduli), ParInputValues)

NextCrtPar ==
    \/ Precompute
    \/ \E r \in RunIds :
          \/ StartRun(r, ParRunInputs, Garbage)
          \/ RunStep(r)
          \/ RunReturn(r)

SpecCrtPar == InitCrtPar /\ [][NextCrtPar]_vars

(***************************************************************************)
(* SpecDiv: one call of _divide_master_threads for any 1 <= n <= MaxN and  *)
(* 1 <= m <= MaxM, one loop iteration per step.                            *)
(***************************************************************************)
InitDiv ==
    /\ div_n \in 1..MaxN
    /\ div_m \in 1..MaxM
    /\ DivIdle
    /\ CrtUnused
    /\ GcdUnused
    /\ WrapUnused
    /\ McUnused

NextDiv ==
    \/ DivEnter
    \/ DivSplit
    \/ DivAdvance
    \/ DivReturn

SpecDiv == InitDiv /\ [][NextDiv]_vars

(***************************************************************************)
(* SpecDivFair: the same call, made by a thread that keeps running: the    *)
(* function takes no lock and waits for nobody, so whenever it has a next  *)
(* step it takes it.                                                       *)
(***************************************************************************)
SpecDivFair == InitDiv /\ [][NextDiv]_vars /\ WF_divVars(NextDiv)

(***************************************************************************)
(* SpecGcd: one call of fmpz_mpolyu_gcd_brown_threaded with 0..MaxWorkers  *)
(* workers.  The masters interleave at the prime counter and at the        *)
(* gcd_is_one flag, the join workers at the exponent counters.  The inputs *)
(* are given by their coefficients of X^0, X^1, ...; among them are pairs  *)
(* with gcd 1, with integer content, with leading coefficients that share  *)
(* a factor or vanish mod 5, with unlucky primes (5 or 7 divides the       *)
(* resultant of the cofactors), and one that needs more primes than a      *)
(* word holds.                                                             *)
(***************************************************************************)
MaxWorkers == 2

Poly(c) == UFromDense([e \in 0..(Len(c) - 1) |-> c[e + 1]], Len(c) - 1)

GcdInputs ==
    { <<Poly(<<0, 0, 1>>),    Poly(<<0, 1>>)>>,
      <<Poly(<<-1, 0, 1>>),   Poly(<<2, 3, 1>>)>>,
      <<Poly(<<9, 6>>),       Poly(<<15, 10>>)>>,
      <<Poly(<<0, 1>>),       Poly(<<5, 1>>)>>,
      <<Poly(<<0, 1, 1>>),    Poly(<<5, 6, 1>>)>>,
      <<Poly(<<1, 6, 5>>),    Poly(<<-1, -4, 5>>)>>,
      <<Poly(<<35, 36, 1>>),  Poly(<<0, 1, 1>>)>>,
      <<Poly(<<-1, 1, 1>>),   Poly(<<1, 0, 1>>)>>,
      <<Poly(<<2, 0, -2>>),   Poly(<<4, 4>>)>>,
      <<Poly(<<1, 3, 2>>),    Poly(<<-1, 1, 2>>)>>,
      <<Poly(<<0, 4>>),       Poly(<<6, 6>>)>> }

InitGcd ==
    /\ \E in \in GcdInputs, w \in 0..MaxWorkers : GcdEntry(in[1], in[2], w)
    /\ CrtUnused
    /\ DivUnused
    /\ WrapUnused
    /\ McUnused

NextGcd ==
    \/ ComputeSplit
    \/ \E i \in 0..MaxWorkers : SplitLock(i) \/ SplitGetPrime(i) \/ SplitImage(i)
    \/ SplitGcdIsOne
    \/ SplitRanOut
    \/ JoinSetup
    \/ \E w \in 0..MaxWorkers : JoinWork(w) \/ JoinReturn(w)
    \/ JoinNeedsMore
    \/ JoinCheckFailed
    \/ JoinSuccessful

SpecGcd == InitGcd /\ [][NextGcd]_vars

(***************************************************************************)
(* SpecGcdFair: the call with every join worker scheduled again and again: *)
(* a worker is a thread of its own (a pool thread, or the calling thread    *)
(* for the last worker) whose loop takes the mutex, claims or returns; the  *)
(* mutex is held for a bounded time only.  The inputs are five of those of  *)
(* SpecGcd, which between them take every step of the call.                 *)
(***************************************************************************)
FairInputs ==
    { <<Poly(<<-1, 0, 1>>),   Poly(<<2, 3, 1>>)>>,
      <<Poly(<<0, 1>>),       Poly(<<5, 1>>)>>,
      <<Poly(<<0, 1, 1>>),    Poly(<<5, 6, 1>>)>>,
      <<Poly(<<35, 36, 1>>),  Poly(<<0, 1, 1>>)>>,
      <<Poly(<<-1, 1, 1>>),   Poly(<<1, 0, 1>>)>> }

InitGcdFair ==
    /\ \E in \in FairInputs, w \in 0..MaxWorkers : GcdEntry(in[1], in[2], w)
    /\ CrtUnused
    /\ DivUnused
    /\ WrapUnused
    /\ McUnused

\* the claim worker w makes when it takes the mutex next
NextClaim(w) ==
    IF joinbase.G_exp >= 0
    THEN [part |-> "G", exp |-> joinbase.G_exp, worker |-> w]
    ELSE IF joinbase.Abar_exp >= 0
    THEN [part |-> "Abar", exp |-> joinbase.Abar_exp, worker |-> w]
    ELSE [part |-> "Bbar", exp |-> joinbase.Bbar_exp, worker |-> w]

\* the step JoinWork(w) as it shows on the log of claims
JoinWorkTurn(w) ==
    /\ gcd_pc = "join" /\ w \in DOMAIN joinargs
    /\ joinargs[w].pc = "run"
    /\ joinbase.G_exp >= 0 \/ joinbase.Abar_exp >= 0 \/ joinbase.Bbar_exp >= 0
    /\ gcd_log' = [gcd_log EXCEPT !.claims = Append(@, NextClaim(w))]

\* the step JoinReturn(w) as it shows on joinargs
JoinReturnTurn(w) ==
    /\ gcd_pc = "join" /\ w \in DOMAIN joinargs
    /\ joinargs[w].pc = "run"
    /\ joinbase.G_exp < 0 /\ joinbase.Abar_exp < 0 /\ joinbase.Bbar_exp < 0
    /\ joinargs' = [joinargs EXCEPT ![w].pc = "done"]

\* weak fairness of JoinWork(w) and of JoinReturn(w) for every worker,
\* stated on the two actions above, which have the same guards and are
\* taken by the same steps
SpecGcdFair ==
    /\ InitGcdFair
    /\ [][NextGcd]_vars
    /\ \A w \in 0..MaxWorkers :
          WF_gcd_log(JoinWorkTurn(w)) /\ WF_joinargs(JoinReturnTurn(w))

(***************************************************************************)
(* SpecGcdSkip: the call on the inputs of SpecGcdFair and on two inputs    *)
(* with bad primes after a good one (7 is unlucky for X^2 + X and          *)
(* X^2 + 8X; 7 divides gamma for (7X + 1)(X + 1) and (7X + 1)(X + 2)),     *)
(* and on X^3 - 1 and X^2 + X + 1, whose gcd has more terms than the       *)
(* cofactor X - 1, with the modular gcd declining at no prime or at one of *)
(* the first three.                                                        *)
(***************************************************************************)
SkipInputs ==
    FairInputs \cup
    { <<Poly(<<0, 1, 1>>),  Poly(<<0, 8, 1>>)>>,
      <<Poly(<<1, 8, 7>>),  Poly(<<2, 15, 7>>)>>,
      <<Poly(<<-1, 0, 0, 1>>), Poly(<<1, 1, 1>>)>> }

DeclineSets == { {} } \cup { {p} : p \in {5, 7, 11} }

InitGcdSkip ==
    /\ \E in \in SkipInputs, w \in 0..MaxWorkers, d \in DeclineSets :
          GcdState([GcdEntryRec(in[1], in[2], w) EXCEPT !.mgcd_declines = d])
    /\ CrtUnused
    /\ DivUnused
    /\ WrapUnused
    /\ McUnused

SpecGcdSkip == InitGcdSkip /\ [][NextGcd]_vars

(***************************************************************************)
(* SpecSplitWide: the first split round of a call with up to MaxM threads, *)
(* from compute_split to the gather that opens the join (the join workers  *)
(* are not run).  The inputs need 1, 2, 3 or 4 images in the first round.  *)
(***************************************************************************)
WideInputs ==
    { <<Poly(<<0, 1, 1>>),    Poly(<<0, -1, 1>>)>>,
      <<Poly(<<0, 1>>),       Poly(<<5, 1>>)>>,
      <<Poly(<<-1, 0, 1>>),   Poly(<<2, 3, 1>>)>>,
      <<Poly(<<0, 1, 1>>),    Poly(<<0, 8, 1>>)>>,
      <<Poly(<<35, 36, 1>>),  Poly(<<0, 1, 1>>)>> }

InitSplitWide ==
    /\ \E in \in WideInputs, w \in 0..(MaxM - 1), d \in DeclineSets :
          GcdState([GcdEntryRec(in[1], in[2], w) EXCEPT !.mgcd_declines = d])
    /\ CrtUnused
    /\ DivUnused
    /\ WrapUnused
    /\ McUnused

NextSplitWide ==
    \/ ComputeSplit
    \/ \E i \in 0..(MaxM - 1) : SplitLock(i) \/ SplitGetPrime(i) \/ SplitImage(i)
    \/ SplitGcdIsOne
    \/ SplitRanOut
    \/ GatherDefined /\ JoinSetup
    \/ GatherUndefined

SpecSplitWide == InitSplitWide /\ [][NextSplitWide]_vars

(***************************************************************************)
(* SpecWrap: one call of fmpz_mpoly_gcd_brown_threaded, for inputs that     *)
(* take each of its exits (a zero input, exponents wider than a word, one   *)
(* variable, and the call of fmpz_mpolyu_gcd_brown_threaded), any           *)
(* thread_limit in 1..MaxWorkers + 1 and any pool of up to MaxWorkers       *)
(* handles of which any subset is held by others.                           *)
(***************************************************************************)
\* the fmpz_mpoly in nv variables with coefficient c[e + 1] at x^e, x the
\* last variable
MPoly(bits, nv, c) ==
    LET U == Poly(c)
    IN  [bits |-> bits,
         terms |-> [k \in DOMAIN U |->
                      [exp |-> [v \in 1..nv |-> IF v = nv THEN U[k].exp ELSE 0],
                       coeff |-> MPValue(U[k].coeff)]]]

WrapInput(bits, nv, a, b) ==
    [A |-> MPoly(bits, nv, a), B |-> MPoly(FLINT_BITS, nv, b), nvars |-> nv]

WrapInputs ==
    { WrapInput(FLINT_BITS, 2, << >>, << >>),
      WrapInput(FLINT_BITS, 2, << >>, <<0, -7>>),
      WrapInput(FLINT_BITS, 2, << >>, <<1, 2>>),
      WrapInput(FLINT_BITS, 2, <<3, 0, -1>>, << >>),
      WrapInput(FLINT_BITS, 2, <<3, 5>>, << >>),
      WrapInput(2 * FLINT_BITS, 2, <<0, 1>>, <<1, 1>>),
      WrapInput(FLINT_BITS, 1, <<-1, 0, 1>>, <<2, 3, 1>>),
      WrapInput(FLINT_BITS, 2, <<0, 1>>, <<5, 1>>),
      WrapInput(FLINT_BITS, 2, <<0, 1, 1>>, <<5, 6, 1>>),
      WrapInput(FLINT_BITS, 2, <<35, 36, 1>>, <<0, 1, 1>>),
      WrapInput(FLINT_BITS, 2, <<-1, 1, 1>>, <<1, 0, 1>>),
      WrapInput(FLINT_BITS, 2, <<2, 0, -2>>, <<4, 4>>) }

PoolStates ==
    { [initialized |-> FALSE, size |-> 0, avail |-> {}] } \cup
    { [initialized |-> TRUE, size |-> n, avail |-> S] :
        n \in 0..MaxWorkers, S \in SUBSET (0..(MaxWorkers - 1)) }

InitWrap ==
    /\ \E in \in WrapInputs :
          mA = in.A /\ mB = in.B /\ nvars = in.nvars
    /\ thread_limit \in 1..(MaxWorkers + 1)
    /\ global_thread_pool \in {pl \in PoolStates : pl.avail \subseteq 0..(pl.size - 1)}
    /\ mG = fmpz_mpoly_zero(FLINT_BITS)
    /\ wrap_ret = -1
    /\ handles = << >>
    /\ wrap_i = 0
    /\ pool_log = [PoolLogInit EXCEPT !.given_back = [h \in 0..(MaxWorkers - 1) |-> 0]]
    /\ wrap_pc = "entry"
    /\ GcdIdle
    /\ CrtUnused
    /\ DivUnused
    /\ McUnused

NextWrap ==
    \/ WrapZeroA
    \/ WrapZeroB
    \/ WrapTooManyBits
    \/ WrapUnivariate
    \/ WrapRequest
    \/ NextGcd
    \/ WrapGcdReturned
    \/ WrapGiveBack
    \/ WrapFinish

SpecWrap == InitWrap /\ [][NextWrap]_vars

(***************************************************************************)
(* SpecMpolyCrt: fmpz_mpoly_crt called once on up to MaxMcCount            *)
(* polynomials whose exponents are any subsets of 0..MaxMcExp, in          *)
(* decreasing order.  The coefficient of x^e in B[j] is e + 1, or          *)
(* m_j * (e + 1) (a residue that is 0 modulo m_j, so that some terms of    *)
(* the result vanish).  The loop is sequential code of one thread, which   *)
(* keeps running: weak fairness of its next step.                          *)
(***************************************************************************)
MaxMcCount == 3

MaxMcExp == 2

McModulus(j) == <<5, 7, 11, 13, 17>>[j + 1]

McPoly(S, c) ==
    [i \in 0..(Cardinality(S) - 1) |->
       LET e == CHOOSE x \in S : Cardinality({y \in S : y > x}) = i
       IN  [exp |-> e, coeff |-> c * (e + 1)]]

McPolys(j) == { McPoly(S, c) : S \in SUBSET (0..MaxMcExp), c \in {1, McModulus(j)} }

McPrograms(count) ==
    LET m == [j \in 0..(count - 1) |-> McModulus(j)]
    IN  { fmpz_crt_precompute_p(fmpz_crt_init, m, perm) : perm \in SortedPerms(m) }

InitMpolyCrt ==
    /\ \E count \in 1..MaxMcCount :
          /\ mc_B \in { b \in [0..(count - 1) -> UNION { McPolys(j) : j \in 0..(count - 1) }] :
                          \A j \in 0..(count - 1) : b[j] \in McPolys(j) }
          /\ mc_P \in McPrograms(count)
    /\ mc_st = McStart(mc_B, mc_P)
    /\ mc_log = McLogInit(mc_B)
    /\ mc_pc = "top"
    /\ mc_k = 0
    /\ mc_Aexp = 0
    /\ CrtUnused
    /\ DivUnused
    /\ GcdUnused
    /\ WrapUnused

NextMpolyCrt == McTop \/ McScan \/ McRun

\* what a step of NextMpolyCrt does to the position of the thread
McTurn ==
    \/ /\ mc_pc = "top"
       /\ mc_k' = FirstUnscanned(mc_B, mc_st.start, 0) +
                     (IF FirstUnscanned(mc_B, mc_st.start, 0) >= ALen(mc_B) THEN 0 ELSE 1)
       /\ mc_pc' = IF FirstUnscanned(mc_B, mc_st.start, 0) >= ALen(mc_B)
                   THEN "done" ELSE "scan"
    \/ /\ mc_pc = "scan"
       /\ mc_k' = IF mc_k < ALen(mc_B) THEN mc_k + 1 ELSE mc_k
       /\ mc_pc' = IF mc_k < ALen(mc_B) THEN "scan" ELSE "top"

mcPos == <<mc_pc, mc_k>>

SpecMpolyCrt == InitMpolyCrt /\ [][NextMpolyCrt]_vars /\ WF_mcPos(McTurn)

(***************************************************************************)
(* Properties of the CRT compiler and runner.                              *)
(***************************************************************************)
Idx(a) == DOMAIN a

PairwiseCoprime(m) ==
    \A i, j \in Idx(m) : i < j => fmpz_gcd(m[i], m[j]) = 1

RECURSIVE ProductFrom(_, _)
ProductFrom(m, i) == IF i >= ALen(m) THEN 1 ELSE m[i] * ProductFrom(m, i + 1)

\* what run r left in outputs[0]
Out0(r) == scratch[ScratchOf(r)][0]

\* r is the representative of x modulo m of least absolute value
IsMods(r, x, m) == (r - x) % Abs(m) = 0 /\ -Abs(m) < 2 * r /\ 2 * r <= Abs(m)

\* C1: for positive pairwise-coprime moduli, after fmpz_crt_precompute_p
\* returned 1, a finished _fmpz_crt_run_p leaves in outputs[0] the integer r
\* with r = inputs[i] (mod moduli[i]) for all i and -M/2 < r <= M/2, M the
\* product of the moduli; moduli [3,5] with inputs [2,3] give -7.
C1_CrtRunResidues ==
    ( /\ run_pc[1] = "done"
      /\ crt_ret = 1
      /\ \A i \in Idx(moduli) : moduli[i] > 0
      /\ PairwiseCoprime(moduli) )
    => /\ \A i \in Idx(moduli) : (Out0(1) - run_in[1][i]) % moduli[i] = 0
       /\ -ProductFrom(moduli, 0) < 2 * Out0(1)
       /\ 2 * Out0(1) <= ProductFrom(moduli, 0)
       /\ ( /\ ALen(moduli) = 2 /\ moduli[0] = 3 /\ moduli[1] = 5
            /\ run_in[1][0] = 2 /\ run_in[1][1] = 3 ) => Out0(1) = -7

C1_Witness ==
    /\ run_pc[1] = "done" /\ crt_ret = 1
    /\ ALen(moduli) = 3 /\ moduli[0] = 7 /\ moduli[1] = 11 /\ moduli[2] = 13
    /\ run_in[1][0] = 1 /\ run_in[1][1] = 2 /\ run_in[1][2] = 3
    /\ Abs(Out0(1)) <= 500

\* C2: for two or more moduli, each >= 2, fmpz_crt_precompute_p returns 0
\* exactly when two of the moduli are not coprime and 1 otherwise; whenever
\* it returns 0 the program has length 0.
C2_NonCoprimeRejected ==
    crt_pc = "compiled"
    => /\ ( ALen(moduli) >= 2 /\ \A i \in Idx(moduli) : moduli[i] >= 2 )
          => crt_ret = (IF PairwiseCoprime(moduli) THEN 1 ELSE 0)
       /\ crt_ret = 0 => (P.length = 0 /\ P.prog = EmptyArr)

C2_Witness ==
    /\ crt_pc = "compiled" /\ crt_ret = 0 /\ P.length = 0
    /\ ALen(moduli) = 2 /\ moduli[0] = 6 /\ moduli[1] = 10

\* C3: with one modulus fmpz_crt_precompute_p returns 1 iff the modulus is
\* not 0, and a run then yields inputs[0] reduced to its least absolute
\* residue; with any number of moduli, a zero among them makes it return 0
\* and leaves the program with length 0.
C3_ZeroAndSingleModulus ==
    crt_pc = "compiled"
    => /\ ALen(moduli) = 1 => crt_ret = (IF moduli[0] # 0 THEN 1 ELSE 0)
       /\ (\E i \in Idx(moduli) : moduli[i] = 0) => (crt_ret = 0 /\ P.length = 0)
       /\ ( ALen(moduli) = 1 /\ crt_ret = 1 /\ run_pc[1] = "done" )
          => IsMods(Out0(1), run_in[1][0], moduli[0])

C3_Witness ==
    /\ run_pc[1] = "done" /\ crt_ret = 1
    /\ ALen(moduli) = 1 /\ moduli[0] = 5 /\ run_in[1][0] = 3 /\ Out0(1) = -2

\* C4: two runs of one successfully compiled program on the same inputs,
\* each with its own scratch array and whatever that array held, leave the
\* same outputs[0]; no instruction reads a scratch slot the run has not
\* written.
C4_ScratchContentsIrrelevant ==
    crt_ret = 1
    => /\ \A r \in RunIds : ~run_rbw[r]
       /\ ( /\ run_pc[1] = "done" /\ run_pc[2] = "done"
            /\ run_in[1] = run_in[2] )
          => Out0(1) = Out0(2)

C4_Witness ==
    /\ crt_ret = 1 /\ P.length = 2
    /\ run_pc[1] = "done" /\ run_pc[2] = "done"
    /\ run_in[1] = run_in[2] /\ run_g[1] # run_g[2]
    /\ Out0(1) = Out0(2)

\* C5: runs of one compiled program that interleave instruction by
\* instruction, each with its own scratch array, each leave what a run
\* executed alone leaves; a run writes to no scratch array but its own.
C5_RunsAreReentrant ==
    \A r \in RunIds :
       /\ run_pc[r] = "done"
          => Out0(r) = fmpz_crt_run_p([k \in 0..(P.localsize - 1) |-> run_g[r]],
                                      P, run_in[r], 0)[0]
       /\ run_pc[r] = "idle" => scratch[r] = EmptyArr

C5_Witness ==
    /\ crt_ret = 1 /\ P.length = 2
    /\ run_pc[1] = "done" /\ run_pc[2] = "done"
    /\ run_overlap[1] /\ run_overlap[2]
    /\ run_in[1] # run_in[2] /\ Out0(1) # Out0(2)

(***************************************************************************)
(* Properties of the thread-budget divider.                                *)
(***************************************************************************)
RECURSIVE SumNum(_, _)
SumNum(v, l) == IF l = 0 THEN 0 ELSE v[l - 1].num + SumNum(v, l - 1)

RECURSIVE SumDen(_, _)
SumDen(v, l) == IF l = 0 THEN 0 ELSE v[l - 1].den + SumDen(v, l - 1)

\* C8: when _divide_master_threads returns l fractions a_i/b_i, the a_i sum
\* to n, the b_i sum to m, and every a_i/b_i is at most 1.1*n/m.
C8_DividerSums ==
    div_pc = "done"
    => /\ SumNum(div_st.v, div_st.l) = div_n
       /\ SumDen(div_st.v, div_st.l) = div_m
       /\ \A k \in 0..(div_st.l - 1) :
             /\ div_st.v[k].den >= 1
             /\ 10 * div_st.v[k].num * div_m <= 11 * div_n * div_st.v[k].den

\* n = 4, m = 15 is split twice: 4/15 becomes 2/7, 1/4, 1/4
C8_Witness ==
    /\ div_pc = "done" /\ div_n = 4 /\ div_m = 15
    /\ div_st.l = 3
    /\ div_st.v[0] = [num |-> 2, den |-> 7]
    /\ div_st.v[1] = [num |-> 1, den |-> 4]
    /\ div_st.v[2] = [num |-> 1, den |-> 4]

\* C9: the number l of fractions _divide_master_threads returns satisfies
\* 1 <= l <= min(n, m).
C9_MastersWithinMin ==
    div_pc = "done" => (1 <= div_st.l /\ div_st.l <= Min(div_n, div_m))

(***************************************************************************)
(* Properties of fmpz_mpolyu_gcd_brown_threaded.                           *)
(***************************************************************************)
Returned == gcd_pc = "return"

SomeMasterShort ==
    \E i \in MasterIds : splitargs[i].image_count < splitargs[i].required_images

\* C6: whenever the call has returned 1, G * Abar is the input A and
\* G * Bbar is the input B, coefficient by coefficient over the integers,
\* for the inputs as passed (with their integer content).
C6_CofactorIdentities ==
    (Returned /\ success = 1) =>
        /\ UMul(G, Abar) = inA
        /\ UMul(G, Bbar) = inB

\* a return of 1 through the join, on the inputs 6X + 9 and 10X + 15 whose
\* contents 3 and 5 go to the cofactors
C6_Witness ==
    /\ Returned /\ success = 1
    /\ splitbase.gcd_is_one = 0
    /\ inA = Poly(<<9, 6>>)
    /\ G = Poly(<<3, 2>>) /\ Abar = Poly(<<3>>) /\ Bbar = Poly(<<5>>)

\* C7: the G of a successful call is, up to sign, the gcd of the inputs in
\* Z[X], a function of (A, B) alone: it is the same for every number of
\* workers and every interleaving of the masters and of the join workers.
C7_SameGcdForAllSchedules ==
    (Returned /\ success = 1) =>
        \/ G = RefGcd(inA, inB)
        \/ G = fmpz_mpolyu_mul_fmpz(RefGcd(inA, inB), -1)

\* a successful call with two masters in which master 1 took a smaller
\* prime than master 0
C7_Witness ==
    /\ Returned /\ success = 1
    /\ num_workers >= 1
    /\ num_master_threads = 2
    /\ splitargs[1].p < splitargs[0].p
    /\ splitargs[0].image_count = 1 /\ splitargs[1].image_count = 1
    /\ G = RefGcd(inA, inB)
    /\ UDeg(G) >= 1

\* C10 as stated: outside a running split round, a master with
\* image_count < required_images means the call has returned 0.
C10_ShortMasterFails ==
    (gcd_pc # "split" /\ SomeMasterShort) => (Returned /\ success = 0)

\* C10: a round that ends with a master short of its images ends the call;
\* the call returns 0 unless gcd_is_one is set, and then it returns 1
\* with G the content gcd.
C10_ShortMasterFailsUnlessGcdIsOne ==
    (gcd_pc # "split" /\ SomeMasterShort) =>
        /\ Returned
        /\ (splitbase.gcd_is_one = 0 => success = 0)
        /\ (splitbase.gcd_is_one = 1 =>
               (success = 1 /\ G = fmpz_mpolyu_mul_fmpz(fmpz_mpolyu_one, cG)))

\* the word primes ran out: a master is short, gcd_is_one is not set, and
\* the call has returned 0
C10_Witness ==
    /\ Returned /\ success = 0
    /\ splitbase.gcd_is_one = 0
    /\ splitbase.p >= UWORD_MAX_PRIME
    /\ SomeMasterShort

\* the input with its integer content divided out
ContentFree(U) == fmpz_mpolyu_divexact_fmpz(U, fmpz_mpolyu_content_fmpz(U))

\* C11: when a split round has ended (every master has returned) with
\* gcd_is_one set, the next step of the call is its return: no join is set
\* up or run, the return value is 1, G is the constant 1 times cG, and Abar
\* and Bbar are the content-free inputs A and B times cAbar and cBbar.
C11_GcdIsOneSkipsJoin ==
    [][(gcd_pc = "split" /\ MastersDone /\ splitbase.gcd_is_one = 1) =>
          /\ gcd_pc' = "return"
          /\ success' = 1
          /\ UNCHANGED <<joinbase, joinargs, modulus>>
          /\ G' = fmpz_mpolyu_mul_fmpz(fmpz_mpolyu_one, cG)
          /\ Abar' = fmpz_mpolyu_mul_fmpz(ContentFree(inA), cAbar)
          /\ Bbar' = fmpz_mpolyu_mul_fmpz(ContentFree(inB), cBbar)]_vars

\* the call on 4X and 6X + 6 has returned through the gcd_is_one exit with
\* G = 2, Abar = 2X and Bbar = 3X + 3
C11_Witness ==
    /\ Returned /\ success = 1
    /\ splitbase.gcd_is_one = 1
    /\ cG = 2 /\ cAbar = 2 /\ cBbar = 3
    /\ G = Poly(<<2>>) /\ Abar = Poly(<<0, 2>>) /\ Bbar = Poly(<<3, 3>>)


(***************************************************************************)
(* Properties of fmpz_mpoly_gcd_brown_threaded.                            *)
(***************************************************************************)
WrapReturned == wrap_pc = "return"

\* M with the sign of its leading coefficient made positive
MadePositive(M) ==
    [k \in DOMAIN M.terms |->
        [exp |-> M.terms[k].exp,
         coeff |-> IF M.terms[0].coeff < 0 THEN -M.terms[k].coeff
                   ELSE M.terms[k].coeff]]

\* C12: when an input is zero the call returns 1 with G = 0 for two zero
\* inputs and otherwise G = the other input, negated when its leading
\* coefficient is negative; no handle has been requested from the pool and
\* no split or join has run (fmpz_mpolyu_gcd_brown_threaded is not called).
C12_ZeroInputShortCircuit ==
    (WrapReturned /\ (fmpz_mpoly_is_zero(mA) \/ fmpz_mpoly_is_zero(mB))) =>
        /\ wrap_ret = 1
        /\ mG.terms = IF fmpz_mpoly_is_zero(mA) THEN MadePositive(mB)
                      ELSE MadePositive(mA)
        /\ pool_log.requests = 0 /\ pool_log.obtained = {}
        /\ handles = << >>
        /\ GcdIdle

\* A = 0 and B = -7x have given G = 7x, with a pool that had a free handle
\* and a thread_limit that allowed to take it
C12_Witness ==
    /\ WrapReturned
    /\ fmpz_mpoly_is_zero(mA)
    /\ mB = MPoly(FLINT_BITS, 2, <<0, -7>>)
    /\ mG = MPoly(FLINT_BITS, 2, <<0, 7>>)
    /\ global_thread_pool.initialized /\ global_thread_pool.avail # {}
    /\ thread_limit > 1

EarlyExit ==
    \/ fmpz_mpoly_is_zero(mA) \/ fmpz_mpoly_is_zero(mB)
    \/ TooManyBits
    \/ nvars = 1

\* C13: every handle the request has handed to the call is given back
\* exactly once before the call returns, whether
\* fmpz_mpolyu_gcd_brown_threaded returned 1 or 0: no handle is given back
\* twice or without having been obtained, and at the return each obtained
\* handle has been given back once and is free in the pool again.  On the
\* exits before the request (zero input, exponents wider than a word, one
\* variable) no handle has been requested.
C13_HandlesGivenBackOnce ==
    /\ pool_log.requests <= 1
    /\ pool_log.obtained = Range(handles)
    /\ \A h \in DOMAIN pool_log.given_back :
          /\ pool_log.given_back[h] <= 1
          /\ pool_log.given_back[h] = 1 => h \in pool_log.obtained
    /\ wrap_pc = "gcd" => pool_log.obtained \cap global_thread_pool.avail = {}
    /\ WrapReturned =>
          /\ \A h \in pool_log.obtained :
                pool_log.given_back[h] = 1 /\ h \in global_thread_pool.avail
          /\ EarlyExit => pool_log.requests = 0 /\ pool_log.obtained = {}

\* two handles were obtained, fmpz_mpolyu_gcd_brown_threaded failed (the
\* word primes ran out), and the call has returned 0
C13_Witness ==
    /\ WrapReturned /\ wrap_ret = 0
    /\ ~EarlyExit
    /\ Len(handles) = 2
    /\ pool_log.given_back[handles[1]] = 1 /\ pool_log.given_back[handles[2]] = 1

\* the same with a return of 1
C13_WitnessSuccess ==
    /\ WrapReturned /\ wrap_ret = 1
    /\ ~EarlyExit
    /\ Len(handles) = 2
    /\ mG = MPoly(FLINT_BITS, 2, <<1, 1>>)

(***************************************************************************)
(* Properties of the split phase.                                          *)
(***************************************************************************)
\* C14: within one call the primes fetched are strictly increasing in the
\* order of the critical sections, over all masters and all rounds; each is
\* a prime that fits a word and lies above the floor 2^(WordBits - 2); no
\* prime is fetched twice, and two masters never work on the same prime.
C14_PrimesStrictlyIncrease ==
    LET ps == gcd_log.primes
    IN  /\ \A k \in 1..Len(ps) :
              /\ IsPrime(ps[k])
              /\ FirstPrimeFloor < ps[k] /\ ps[k] < Pow(2, WordBits)
        /\ \A k \in 1..(Len(ps) - 1) : ps[k] < ps[k + 1]
        /\ \A i \in MasterIds :
              splitargs[i].pc = "image" =>
                 /\ \E k \in 1..Len(ps) : ps[k] = splitargs[i].p
                 /\ \A j \in MasterIds \ {i} :
                       splitargs[j].pc = "image" => splitargs[j].p # splitargs[i].p

\* a later round (an earlier join has raised the modulus) in which two
\* masters work at the same time on two of the primes fetched so far
C14_Witness ==
    /\ gcd_pc = "split"
    /\ modulus > 1
    /\ Len(gcd_log.primes) >= 3
    /\ \E i, j \in MasterIds :
          /\ i # j
          /\ splitargs[i].pc = "image" /\ splitargs[j].pc = "image"

\* C15: every write of gcd_is_one by a master during a split round is
\* performed while that master holds the split mutex.
C15_FlagWrittenUnderMutex ==
    \A k \in 1..Len(gcd_log.flag_writes) :
        gcd_log.flag_writes[k].holder = gcd_log.flag_writes[k].master

\* C16: once some master has set gcd_is_one, every other master exits at
\* the top of its next loop iteration: a master that passes the head of its
\* loop with the flag set does not go on to fetch a prime and work on it.
C16_ExitAtLoopTop ==
    \A i \in MasterIds :
        splitargs[i].pc = "image" => splitargs[i].flag_at_top = 0

(***************************************************************************)
(* Properties of the fork-join structure.                                  *)
(***************************************************************************)
\* a job started on handles[h] has not returned: the master woken on it is
\* still in its loop, or the join worker woken on it is still running
HandleBusy(h) ==
    \/ \E i \in MasterIds :
          /\ i >= 1
          /\ splitargs[i].master_handle = h
          /\ splitargs[i].pc \in {"loop", "locked", "image"}
    \/ h \in 0..(num_workers - 1) /\ joinargs[h].pc = "run"

\* the handles a master owns during a split round
HandlesOf(arg) ==
    (IF arg.master_handle = -1 THEN {} ELSE {arg.master_handle})
    \cup Range(arg.worker_handles)

\* C17: strict fork-join.  The steps by which the orchestrator leaves the
\* split phase (they read gcd_is_one, image_count, modulus and the images)
\* are taken only when every master has returned; in particular the join
\* workers are woken only then.  The steps by which it leaves the join phase
\* (the final merge) are taken only when every join worker has returned.
\* No handle is woken, for a master or for a join worker, while a job
\* started on it earlier is still running, and within a round no handle is
\* given to two masters.
C17_StrictForkJoin ==
    [][/\ (gcd_pc = "split" /\ gcd_pc' # "split") =>
              \A i \in MasterIds : splitargs[i].pc = "done"
       /\ (gcd_pc = "join" /\ gcd_pc' # "join") =>
              \A w \in DOMAIN joinargs : joinargs[w].pc = "done"
       /\ (gcd_pc # "split" /\ gcd_pc' = "split") =>
              /\ \A i \in 1..(num_master_threads' - 1) :
                    /\ splitargs'[i].master_handle \in 0..(num_workers - 1)
                    /\ ~HandleBusy(splitargs'[i].master_handle)
              /\ \A i, j \in 0..(num_master_threads' - 1) :
                    i # j => HandlesOf(splitargs'[i]) \cap HandlesOf(splitargs'[j]) = {}
       /\ (gcd_pc # "join" /\ gcd_pc' = "join") =>
              \A h \in 0..(num_workers - 1) : ~HandleBusy(h)
       /\ (\E w \in DOMAIN joinargs : joinargs[w].pc = "run") => gcd_pc = "join"
       /\ (\E i \in MasterIds : splitargs[i].pc \in {"loop", "locked", "image"})
              => gcd_pc = "split"]_vars

\* a join worker runs on handle 0, the handle on which master 1 ran in the
\* split round before
C17_Witness ==
    /\ gcd_pc = "join"
    /\ num_master_threads >= 2
    /\ splitargs[1].master_handle = 0
    /\ joinargs[0].pc = "run"
    /\ Len(gcd_log.claims) >= 1

(***************************************************************************)
(* Properties of the join phase.                                           *)
(***************************************************************************)
\* the claims of the current join made on one of "G", "Abar", "Bbar"
PartClaims(part) == SelectSeq(gcd_log.claims, LAMBDA c : c.part = part)

PartRank(part) == IF part = "G" THEN 0 ELSE IF part = "Abar" THEN 1 ELSE 2

\* the claims on part are top, top - 1, ..., counter + 1, in this order
ClaimedDownTo(part, top, counter) ==
    /\ Len(PartClaims(part)) = top - counter
    /\ \A k \in 1..Len(PartClaims(part)) : PartClaims(part)[k].exp = top - k + 1

\* C18: during a join every exponent from the top exponent down to 0 of G,
\* Abar and Bbar is claimed at most once, by one worker (exactly once when
\* all workers have returned), and the claims follow the priority order:
\* no exponent of Abar is claimed while G_exp >= 0 and none of Bbar while
\* Abar_exp >= 0.
C18_EachExponentClaimedOnce ==
    gcd_pc = "join" =>
        /\ ClaimedDownTo("G", joinbase.gptrs[0][0].exp, joinbase.G_exp)
        /\ ClaimedDownTo("Abar", joinbase.abarptrs[0][0].exp, joinbase.Abar_exp)
        /\ ClaimedDownTo("Bbar", joinbase.bbarptrs[0][0].exp, joinbase.Bbar_exp)
        /\ \A k \in 1..Len(gcd_log.claims) :
              /\ gcd_log.claims[k].exp >= 0
              /\ gcd_log.claims[k].worker \in DOMAIN joinargs
              /\ \A l \in 1..(k - 1) :
                    PartRank(gcd_log.claims[l].part) <= PartRank(gcd_log.claims[k].part)
        /\ Len(PartClaims("Abar")) > 0 => joinbase.G_exp < 0
        /\ Len(PartClaims("Bbar")) > 0 => joinbase.Abar_exp < 0
        /\ (\A w \in DOMAIN joinargs : joinargs[w].pc = "done") =>
              /\ joinbase.G_exp = -1
              /\ joinbase.Abar_exp = -1
              /\ joinbase.Bbar_exp = -1

\* three workers have returned from a join in which each of them claimed
\* an exponent and exponents of all three parts were claimed
C18_Witness ==
    /\ gcd_pc = "join"
    /\ num_workers = 2
    /\ \A w \in DOMAIN joinargs : joinargs[w].pc = "done"
    /\ \A w \in DOMAIN joinargs :
          \E k \in 1..Len(gcd_log.claims) : gcd_log.claims[k].worker = w
    /\ Len(PartClaims("G")) >= 2
    /\ Len(PartClaims("Abar")) >= 2
    /\ Len(PartClaims("Bbar")) >= 1

\* one of the three exponent counters of joinbase
CounterStep(f) ==
    /\ joinbase'[f] \in {joinbase[f], joinbase[f] - 1}
    /\ joinbase'[f] >= -1

\* join worker w is at pc in the running join
JoinWorkerAt(w, pc) ==
    IF gcd_pc = "join" /\ w \in DOMAIN joinargs THEN joinargs[w].pc = pc ELSE FALSE

\* C19: during a join the three exponent counters only decrease, by one at
\* each claim (one counter per claim), and never go below -1; under fair
\* scheduling every join worker that runs eventually returns; and when all
\* workers have returned the three counters are -1.
C19_JoinTerminates ==
    /\ [][(gcd_pc = "join" /\ gcd_pc' = "join") =>
             /\ CounterStep("G_exp") /\ CounterStep("Abar_exp") /\ CounterStep("Bbar_exp")
             /\ (Len(gcd_log'.claims) = Len(gcd_log.claims) + 1) =>
                   joinbase'.G_exp + joinbase'.Abar_exp + joinbase'.Bbar_exp
                     = joinbase.G_exp + joinbase.Abar_exp + joinbase.Bbar_exp - 1
             /\ (gcd_log'.claims = gcd_log.claims) => joinbase' = joinbase]_vars
    /\ \A w \in 0..MaxWorkers :
          JoinWorkerAt(w, "run") ~> JoinWorkerAt(w, "done")
    /\ [](gcd_pc = "join" /\ (\A w \in DOMAIN joinargs : joinargs[w].pc = "done")
             => joinbase.G_exp = -1 /\ joinbase.Abar_exp = -1 /\ joinbase.Bbar_exp = -1)

\* the last of three join workers has returned, after six claims that
\* brought each counter from 1 down to -1
C19_Witness ==
    /\ gcd_pc = "join"
    /\ num_workers = 2
    /\ \A w \in DOMAIN joinargs : joinargs[w].pc = "done"
    /\ Len(gcd_log.claims) = 6
    /\ joinbase.G_exp = -1 /\ joinbase.Abar_exp = -1 /\ joinbase.Bbar_exp = -1

\* strictly decreasing exponents of X and no zero coefficient polynomial
IsCanonical(U) ==
    /\ \A k \in DOMAIN U :
          /\ ALen(U[k].coeff) > 0
          /\ \A j \in DOMAIN U[k].coeff : U[k].coeff[j].coeff # 0
    /\ \A k \in DOMAIN U : k + 1 \in DOMAIN U => U[k].exp > U[k + 1].exp

RECURSIVE LengthSum(_, _, _)
LengthSum(args, f, k) ==
    IF k >= ALen(args) THEN 0 ELSE ALen(args[k][f]) + LengthSum(args, f, k + 1)

\* what one worker alone builds from the images imgs, exponent e down to 0
RECURSIVE SerialJoin(_, _, _, _)
SerialJoin(CRT, imgs, e, acc) ==
    IF e < 0 THEN acc.A
    ELSE SerialJoin(CRT, imgs, e - 1,
                    fmpz_mpolyu_crt_exp(CRT, acc.Amax, acc.Asum, acc.A, e, imgs))

SerialStart == [A |-> EmptyArr, Amax |-> 0, Asum |-> 0]

\* C20: when all join workers have returned, each of the three merged
\* polynomials (the results of _final_join) has strictly decreasing
\* exponents of X and no zero coefficient polynomial, its length is the sum
\* of the lengths of the workers' private outputs, and it is the polynomial
\* a single worker builds from the same images, whichever worker claimed
\* which exponent.
C20_MergedCanonical ==
    (gcd_pc = "join" /\ \A w \in DOMAIN joinargs : joinargs[w].pc = "done") =>
        /\ IsCanonical(JoinedG) /\ IsCanonical(JoinedAbar) /\ IsCanonical(JoinedBbar)
        /\ ALen(JoinedG) = LengthSum(joinargs, "G", 0)
        /\ ALen(JoinedAbar) = LengthSum(joinargs, "Abar", 0)
        /\ ALen(JoinedBbar) = LengthSum(joinargs, "Bbar", 0)
        /\ JoinedG = SerialJoin(joinbase.CRT, joinbase.gptrs,
                                joinbase.gptrs[0][0].exp, SerialStart)
        /\ JoinedAbar = SerialJoin(joinbase.CRT, joinbase.abarptrs,
                                   joinbase.abarptrs[0][0].exp, SerialStart)
        /\ JoinedBbar = SerialJoin(joinbase.CRT, joinbase.bbarptrs,
                                   joinbase.bbarptrs[0][0].exp, SerialStart)

\* three workers have returned, each with a term of a different part, and
\* the merged G is shorter than its top exponent plus one: the coefficient
\* of an exponent that was claimed came out zero and was not appended
C20_Witness ==
    /\ gcd_pc = "join"
    /\ \A w \in DOMAIN joinargs : joinargs[w].pc = "done"
    /\ num_workers = 2
    /\ ALen(JoinedG) < joinbase.gptrs[0][0].exp + 1
    /\ ALen(joinargs[0].G) = 1
    /\ ALen(joinargs[1].Abar) = 1
    /\ ALen(joinargs[2].Bbar) = 1

(***************************************************************************)
(* fmpz_mpoly_crt, the monomial-aligned merger.                            *)
(***************************************************************************)
McMonomials == UNION { { mc_B[j][i].exp : i \in DOMAIN mc_B[j] } : j \in DOMAIN mc_B }

\* the coefficient of x^e in B[j], or 0 if B[j] lacks it
McCoeff(j, e) ==
    IF \E i \in DOMAIN mc_B[j] : mc_B[j][i].exp = e
    THEN mc_B[j][CHOOSE i \in DOMAIN mc_B[j] : mc_B[j][i].exp = e].coeff
    ELSE 0

McCalls == mc_log.calls

McCallsOf(e) == { c \in DOMAIN McCalls : McCalls[c].exp = e }

\* the terms the calls of the runner leave in A: those with a nonzero result
McKept == SelectSeq(McCalls, LAMBDA c : c.out # 0)

McAllConsumedOnce ==
    \A j \in DOMAIN mc_B :
       /\ mc_st.start[j] = ALen(mc_B[j])
       /\ \A i \in DOMAIN mc_B[j] :
             Cardinality({ c \in DOMAIN McCalls : McCalls[c].input[j] = i }) = 1

McOneCallPerMonomial ==
    /\ \A c \in DOMAIN McCalls : McCalls[c].exp \in McMonomials
    /\ \A e \in McMonomials :
          /\ Cardinality(McCallsOf(e)) = 1
          /\ \A c \in McCallsOf(e) :
                /\ TermInputs(mc_B, McCalls[c].input) = [j \in DOMAIN mc_B |-> McCoeff(j, e)]
                /\ McCalls[c].out =
                     fmpz_crt_run_p(McStart(mc_B, mc_P).output, mc_P,
                                    [j \in DOMAIN mc_B |-> McCoeff(j, e)], 0)[0]

McOutputIsKept ==
    /\ ALen(mc_st.A) = Len(McKept)
    /\ \A i \in DOMAIN mc_st.A :
          /\ mc_st.A[i] = [exp |-> McKept[i + 1].exp, coeff |-> McKept[i + 1].out]
          /\ i > 0 => mc_st.A[i - 1].exp > mc_st.A[i].exp

\* an undo (a later head larger than the candidate) puts every cursor before k
\* back where it stood at the head of this turn of while (1)
McUndoRestores ==
    (mc_pc = "scan" /\ mc_pc' = "scan" /\ mc_Aexp' # mc_Aexp) =>
        \A j \in DOMAIN mc_B :
           j < mc_k => /\ mc_st'.start[j] = mc_log.top_start[j]
                       /\ mc_st'.input[j] = -1

\* C21: on polynomials with strictly decreasing exponents the loop of
\* fmpz_mpoly_crt terminates; every input term is consumed exactly once (an
\* undo restores exactly the cursors moved for the abandoned candidate); the
\* runner is called once per monomial that occurs in some input, on the vector
\* of that monomial's coefficients (0 where a B[j] lacks it); and the output
\* holds exactly the monomials with a nonzero result, in strictly decreasing
\* order.
C21_MergerAlignsMonomials ==
    /\ <>(mc_pc = "done")
    /\ [][McUndoRestores]_vars
    /\ [](mc_pc = "done" =>
            /\ McAllConsumedOnce
            /\ McOneCallPerMonomial
            /\ McOutputIsKept
            /\ mc_st.A = fmpz_mpoly_crt(mc_P, 0, 0, mc_B).A)

\* three inputs, an undo that put two cursors back, a term that vanished and
\* two that were kept
C21_Witness ==
    /\ mc_pc = "done"
    /\ ALen(mc_B) = 3
    /\ mc_log.undone = 2
    /\ \E c \in DOMAIN McCalls : McCalls[c].out = 0
    /\ ALen(mc_st.A) >= 2

(***************************************************************************)
(* The loop of a master (_splitworker).                                    *)
(***************************************************************************)
\* the shape of an image: the top exponent of X, then the leading monomial of
\* the leading coefficient
Shape(U) == <<U[0].exp, U[0].coeff[0].exp>>

ShapeLess(s, t) == s[1] < t[1] \/ (s[1] = t[1] /\ s[2] < t[2])

\* the image of the gcd at the prime master i holds
ImageOf(i) ==
    nmod_mpolyun_gcd_brown_smprime(
        fmpz_mpolyu_intp_reduce_p_mpolyun(A, splitargs[i].p),
        fmpz_mpolyu_intp_reduce_p_mpolyun(B, splitargs[i].p), splitargs[i].p)

ScaledGp(i) ==
    nmod_mpolyun_scalar_mul_nmod(ImageOf(i).Gp, gamma % splitargs[i].p, splitargs[i].p)

\* master i is about to take the rest of a turn of its loop
MasterTurn(i) ==
    /\ gcd_pc = "split"
    /\ i \in MasterIds
    /\ splitargs[i].pc = "image"
    /\ splitargs'[i] # splitargs[i]

\* the turn gets an image Gp that is no constant, with no flag in the way
ImageArrives(i) ==
    /\ MasterTurn(i)
    /\ gamma % splitargs[i].p # 0
    /\ splitargs[i].p \notin mgcd_declines
    /\ splitbase.gcd_is_one = 0
    /\ ~nmod_mpolyun_is_nonzero_nmod(ImageOf(i).Gp)

\* the accumulator of a master
Accumulator(arg) == <<arg.G, arg.Abar, arg.Bbar, arg.modulus, arg.image_count>>

\* every coefficient of Gnew is that of G modulo m and that of Gp modulo p
CombinedFrom(Gnew, Gold, m, Gp, p) ==
    \A e \in 0..Max(UDeg(Gnew), Max(UDeg(Gold), UDeg(Gp))) :
       /\ (UCoef(Gnew, e) - UCoef(Gold, e)) % m = 0
       /\ (UCoef(Gnew, e) - UCoef(Gp, e)) % p = 0
       /\ 2 * Abs(UCoef(Gnew, e)) <= m * p

UnluckyPrimeRule(i) ==
    LET arg == splitargs[i]
        new == splitargs'[i]
        p   == arg.p
    IN  (ImageArrives(i) /\ arg.modulus # 1) =>
          /\ ShapeLess(Shape(arg.G), Shape(ImageOf(i).Gp)) =>
                Accumulator(new) = Accumulator(arg)
          /\ ShapeLess(Shape(ImageOf(i).Gp), Shape(arg.G)) =>
                /\ new.modulus = p
                /\ new.image_count = 1
                /\ new.G = fmpz_mpolyu_intp_lift_p_mpolyun(ScaledGp(i), p)
                /\ new.Abar = fmpz_mpolyu_intp_lift_p_mpolyun(ImageOf(i).Abarp, p)
                /\ new.Bbar = fmpz_mpolyu_intp_lift_p_mpolyun(ImageOf(i).Bbarp, p)
          /\ Shape(ImageOf(i).Gp) = Shape(arg.G) =>
                /\ new.modulus = arg.modulus * p
                /\ new.image_count = arg.image_count + 1
                /\ CombinedFrom(new.G, arg.G, arg.modulus, ScaledGp(i), p)
                /\ CombinedFrom(new.Abar, arg.Abar, arg.modulus, ImageOf(i).Abarp, p)
                /\ CombinedFrom(new.Bbar, arg.Bbar, arg.modulus, ImageOf(i).Bbarp, p)

\* C22: when a master whose accumulator holds an image (modulus # 1) gets a
\* new image Gp, a strictly larger shape of Gp leaves the accumulator as it
\* is, a strictly smaller one makes Gp the first image of a fresh accumulator
\* (modulus = p, image_count = 1), and an equal one is combined by CRT and
\* counted (image_count + 1).
C22_UnluckyPrimeRule ==
    [][\A i \in 0..MaxWorkers : UnluckyPrimeRule(i)]_vars

\* a lone master has skipped the image at 7 for its larger shape (the prime
\* neither divides gamma nor makes the modular gcd decline) and has then
\* combined the image at 11 with the one at 5
C22_Witness ==
    /\ num_master_threads = 1
    /\ mgcd_declines = {}
    /\ gamma % 7 # 0
    /\ splitargs[0].last = "crt"
    /\ splitargs[0].acc_primes = {5, 11}
    /\ splitargs[0].image_count = 2

\* the turn of master i ends by skipping its prime
TurnSkips(i) ==
    /\ MasterTurn(i)
    /\ \/ gamma % splitargs[i].p = 0
       \/ splitargs[i].p \in mgcd_declines
       \/ /\ ImageArrives(i)
          /\ splitargs[i].modulus # 1
          /\ ShapeLess(Shape(splitargs[i].G), Shape(ImageOf(i).Gp))

\* C23: a turn of a master that skips its prime (gamma mod p = 0, the modular
\* gcd declines, or the image has a strictly larger shape than the
\* accumulator) leaves the master's G, Abar, Bbar, modulus and image_count
\* unchanged and goes back to the head of the loop, and the shared prime
\* counter stands at or past the skipped prime (the next prime handed out
\* is larger).
C23_SkipLeavesAccumulator ==
    [][\A i \in 0..MaxWorkers :
         TurnSkips(i) =>
            /\ Accumulator(splitargs'[i]) = Accumulator(splitargs[i])
            /\ splitargs'[i].pc = "loop"
            /\ splitbase.p >= splitargs[i].p
            /\ splitbase'.p >= splitargs[i].p]_vars

\* with one image in each accumulator, one master has just skipped a prime
\* that divides gamma and another a prime at which the modular gcd declined
C23_Witness ==
    \E i, j \in MasterIds :
       /\ splitargs[i].last = "skip_gamma"
       /\ splitargs[i].image_count >= 1
       /\ splitargs[j].last \in {"skip_mgcd", "skip_shape"}

RECURSIVE SetProduct(_)
SetProduct(S) ==
    IF S = {} THEN 1
    ELSE LET x == CHOOSE y \in S : TRUE IN x * SetProduct(S \ {x})

\* the accumulator of a master that stands at the head of its loop or has left it
AccumulatorInvariant(arg) ==
    /\ arg.image_count <= arg.required_images
    /\ \A q \in arg.acc_primes : IsPrime(q)
    /\ Cardinality(arg.acc_primes) = arg.image_count
    /\ arg.modulus = SetProduct(arg.acc_primes)
    /\ arg.modulus = 1 <=> arg.image_count = 0

\* why a master may have left its loop
MayHaveLeft(arg) ==
    \/ arg.image_count = arg.required_images
    \/ arg.p >= UWORD_MAX_PRIME
    \/ arg.last \in {"saw_flag", "set_flag"}

\* a master gets a prime only by fetching it itself, holding the mutex, and
\* only the prime it has fetched enters its accumulator
OwnPrimesOnly(i) ==
    LET arg == splitargs[i]
        new == splitargs'[i]
    IN  /\ (new.p # arg.p /\ arg.pc # "loop") =>
              /\ arg.pc = "locked"
              /\ split_mutex = i
              /\ new.p = n_nextprime(splitbase.p)
              /\ splitbase'.p = new.p
        /\ (new.acc_primes # arg.acc_primes /\ new.acc_primes # {}) =>
              /\ arg.pc = "image"
              /\ new.acc_primes \in {arg.acc_primes \cup {arg.p}, {arg.p}}
              /\ arg.p \notin arg.acc_primes

\* C24: whenever a master is at the head of its loop (also after a reset of
\* its accumulator) or has left the loop, image_count <= required_images and
\* modulus is the product of exactly image_count distinct primes, each fetched
\* by this master itself (so modulus = 1 iff image_count = 0); and a master
\* that has left its loop has image_count = required_images, or found the
\* prime pool exhausted, or saw or set gcd_is_one.
C24_MasterAccumulator ==
    /\ [](gcd_pc = "split" =>
            \A i \in MasterIds :
               /\ splitargs[i].pc \in {"loop", "done"} =>
                     AccumulatorInvariant(splitargs[i])
               /\ splitargs[i].pc = "done" => MayHaveLeft(splitargs[i]))
    /\ [][gcd_pc = "split" /\ gcd_pc' = "split" =>
             \A i \in MasterIds : OwnPrimesOnly(i)]_vars

\* one master is back at the head of its loop after a reset of its
\* accumulator, with images still to get, while another has left its loop
\* with two images
C24_Witness ==
    /\ gcd_pc = "split"
    /\ \E i, j \in MasterIds :
          /\ splitargs[i].pc = "loop"
          /\ splitargs[i].last = "reset"
          /\ splitargs[i].image_count = 1
          /\ splitargs[i].required_images >= 2
          /\ splitargs[j].pc = "done"
          /\ splitargs[j].image_count >= 1

(***************************************************************************)
(* The gather step: which images go to the join.                           *)
(***************************************************************************)
\* the candidates in the order the code looks at them: number 0 is the image
\* of the previous rounds, present when modulus # 1, number i + 1 is the
\* accumulator of master i
CandidateIds == (IF modulus # 1 THEN {0} ELSE {}) \cup { i + 1 : i \in MasterIds }

Candidate(c) ==
    IF c = 0 THEN Image(G, Abar, Bbar, modulus)
    ELSE Image(splitargs[c - 1].G, splitargs[c - 1].Abar, splitargs[c - 1].Bbar,
               splitargs[c - 1].modulus)

\* the candidates of minimum shape
Accepted ==
    { c \in CandidateIds :
        \A d \in CandidateIds : ~ShapeLess(Shape(Candidate(d).G), Shape(Candidate(c).G)) }

\* the k-th accepted candidate, k = 0, 1, ...
AcceptedAt(k) ==
    Candidate(CHOOSE c \in Accepted : Cardinality({d \in Accepted : d < c}) = k)

\* the images a join base holds
JoinImages(jb) ==
    [k \in DOMAIN jb.gptrs |->
       Image(jb.gptrs[k], jb.abarptrs[k], jb.bbarptrs[k], jb.mptrs[k])]

\* C25: the images passed to the join are exactly the candidates (the image
\* of the previous rounds when modulus > 1, and the accumulator of every
\* master) whose shape is the minimum over all candidates; at least one and at
\* most num_master_threads + 1 are passed; and the modulus after the join is
\* the product of the moduli of exactly these images.
C25_GatherTakesMinimumShape ==
    [][/\ (gcd_pc = "split" /\ gcd_pc' = "join") =>
             /\ joinbase'.num_images = Cardinality(Accepted)
             /\ joinbase'.num_images >= 1
             /\ joinbase'.num_images <= num_master_threads + 1
             /\ JoinImages(joinbase') =
                   [k \in 0..(Cardinality(Accepted) - 1) |-> AcceptedAt(k)]
       /\ (gcd_pc = "join" /\ gcd_pc' # "join") =>
             /\ JoinImages(joinbase) =
                   [k \in 0..(Cardinality(Accepted) - 1) |-> AcceptedAt(k)]
             /\ modulus' = SetProduct({ Candidate(c).modulus : c \in Accepted })
             /\ Cardinality({ Candidate(c).modulus : c \in Accepted }) =
                   Cardinality(Accepted)]_vars

\* a join of the images of masters 1 and 2, that of master 0 having been
\* dropped for its larger shape
C25_Witness ==
    /\ gcd_pc = "join"
    /\ CandidateIds = {1, 2, 3}
    /\ Accepted = {2, 3}
    /\ joinbase.num_images = 2

(***************************************************************************)
(* Structure of the compiled program.                                      *)
(***************************************************************************)
\* the operands of instruction i: <<i, "b">> and <<i, "c">>
OperandsOf(prog) == Idx(prog) \X {"b", "c"}

OperandAt(prog, o) == IF o[2] = "b" THEN prog[o[1]].b_idx ELSE prog[o[1]].c_idx

\* the instructions before i whose destination is slot s
WritersBefore(prog, i, s) == { k \in Idx(prog) : k < i /\ prog[k].a_idx = s }

\* the instruction that wrote last what operand o finds in its slot
LatestWriter(prog, o) ==
    LET W == WritersBefore(prog, o[1], OperandAt(prog, o))
    IN  CHOOSE k \in W : \A j \in W : j <= k

SlotOperands(prog) == { o \in OperandsOf(prog) : OperandAt(prog, o) >= 0 }

CompiledGood == crt_pc = "compiled" /\ crt_ret = 1 /\ ALen(moduli) >= 2

\* L - 1 instructions, every input once, the root in slot 0, all slots and
\* the two temporaries inside the scratch array
ProgramFrame ==
    LET len == ALen(moduli)
    IN  /\ P.length = len - 1
        /\ ALen(P.prog) = len - 1
        /\ \A j \in 0..(len - 1) :
              Cardinality({ o \in OperandsOf(P.prog) :
                              OperandAt(P.prog, o) = InputOperand(j) }) = 1
        /\ \A o \in OperandsOf(P.prog) : OperandAt(P.prog, o) >= -len
        /\ P.prog[P.length - 1].a_idx = 0
        /\ \A i \in Idx(P.prog) : 0 <= P.prog[i].a_idx /\ P.prog[i].a_idx < P.localsize
        /\ \A o \in OperandsOf(P.prog) : OperandAt(P.prog, o) < P.localsize
        /\ 0 <= P.temp1loc /\ P.temp1loc < P.localsize
        /\ 0 <= P.temp2loc /\ P.temp2loc < P.localsize
        /\ P.temp1loc # P.temp2loc
        /\ \A i \in Idx(P.prog) :
              P.prog[i].a_idx \notin {P.temp1loc, P.temp2loc}

\* C26 as stated: for a program compiled successfully from L >= 2 moduli,
\* the frame above holds and each slot operand is the a_idx of exactly one
\* earlier instruction.
C26_SlotHasOneWriter ==
    CompiledGood
    => /\ ProgramFrame
       /\ \A o \in SlotOperands(P.prog) :
             Cardinality(WritersBefore(P.prog, o[1], OperandAt(P.prog, o))) = 1

\* C26 amended: for a program compiled successfully from L >= 2 moduli, there
\* are L - 1 instructions, each input index occurs once as a negative
\* operand, every slot operand has an earlier instruction writing that slot,
\* every instruction but the last is the latest writer of exactly one slot
\* operand of a later instruction (slots are reused, so a slot may have had
\* several writers), the last instruction writes slot 0, every a_idx and
\* slot operand is below localsize, and temp1loc and temp2loc are below
\* localsize, distinct from each other and from every a_idx.
C26_ProgramIsBinaryTree ==
    CompiledGood
    => /\ ProgramFrame
       /\ \A o \in SlotOperands(P.prog) :
             WritersBefore(P.prog, o[1], OperandAt(P.prog, o)) # {}
       /\ \A k \in Idx(P.prog) :
             Cardinality({ o \in SlotOperands(P.prog) :
                             LatestWriter(P.prog, o) = k })
               = (IF k = P.length - 1 THEN 0 ELSE 1)

\* five moduli: the right subtree of the root reuses the slot that an inner
\* node of the left subtree wrote
C26_Witness ==
    /\ CompiledGood
    /\ ALen(moduli) = 5
    /\ P.length = 4
    /\ \E o \in SlotOperands(P.prog) :
          Cardinality(WritersBefore(P.prog, o[1], OperandAt(P.prog, o))) = 2

(***************************************************************************)
(* Slot liveness.  The recursion of _push_prog is followed once more, this *)
(* time keeping for every instruction, in the order they are appended, the *)
(* range [start, stop) it combines and the point mid where it was split.   *)
(***************************************************************************)
RECURSIVE PushRanges(_, _, _)
PushRanges(perm, start, stop) ==
    LET mid0 == start + (stop - start) \div 2
        mid  == BalanceMid(perm, mid0, stop,
                           DegreeSum(perm, start, mid0),
                           DegreeSum(perm, mid0, stop))
    IN  (IF start + 1 < mid THEN PushRanges(perm, start, mid) ELSE << >>)
          \o (IF mid + 1 < stop THEN PushRanges(perm, mid, stop) ELSE << >>)
          \o << [start |-> start, mid |-> mid, stop |-> stop] >>

\* the degrees of the moduli in the order qsort leaves them (every order it
\* may leave has the same degrees at the same places, and the split points
\* depend on the degrees only)
SortedDegrees ==
    LET D == { fmpz_bits(moduli[j]) : j \in Idx(moduli) }
        UpTo(d) == Cardinality({ j \in Idx(moduli) : fmpz_bits(moduli[j]) <= d })
    IN  [i \in Idx(moduli) |->
           [idx |-> i,
            degree |-> CHOOSE d \in D :
                          UpTo(d) > i /\ \A e \in D : UpTo(e) > i => d <= e]]

\* the ranges of the program compiled from moduli
ProgramRanges == PushRanges(SortedDegrees, 0, ALen(moduli))

\* the instruction that combines [lo, hi)
NodeOver(rgs, lo, hi) ==
    CHOOSE k \in Idx(P.prog) : rgs[k + 1].start = lo /\ rgs[k + 1].stop = hi

\* the children of instruction i that are instructions: [operand, child]
ChildrenOf(rgs, i) ==
    LET rg == rgs[i + 1]
    IN  (IF rg.start + 1 < rg.mid
         THEN { [slot |-> P.prog[i].b_idx, node |-> NodeOver(rgs, rg.start, rg.mid)] }
         ELSE {})
        \cup
        (IF rg.mid + 1 < rg.stop
         THEN { [slot |-> P.prog[i].c_idx, node |-> NodeOver(rgs, rg.mid, rg.stop)] }
         ELSE {})

\* _fmpz_crt_run_p from instruction i up to, not including, instruction n
RECURSIVE RunUpTo(_, _, _, _, _)
RunUpTo(outputs, prog, inputs, i, n) ==
    IF i >= n THEN outputs
    ELSE RunUpTo(RunInstr(outputs, prog, inputs, i), prog, inputs, i + 1, n)

\* what the scratch array of run r held before its first instruction
ScratchAtStart(r) == [k \in 0..(P.localsize - 1) |-> run_g[r]]

\* run r is about to execute an instruction
AboutToRun(r) == crt_ret = 1 /\ run_pc[r] = "run" /\ run_i[r] < P.length

\* C27: whenever a run is about to execute an instruction that reads scratch
\* slot s for a child subtree, the child's instruction has been executed, it
\* wrote s, no instruction executed since has s as destination or as a
\* temporary, s holds the value it had right after the child's instruction,
\* and the instruction's own destination is none of its slot operands.
C27_SlotLiveness ==
    \A r \in RunIds :
       AboutToRun(r)
       => LET i == run_i[r]
              children == ChildrenOf(ProgramRanges, i)
          IN  /\ SlotsRead(P, i) = { c.slot : c \in children }
              /\ P.prog[i].a_idx \notin SlotsRead(P, i)
              /\ \A c \in children :
                    /\ c.node < i
                    /\ P.prog[c.node].a_idx = c.slot
                    /\ \A j \in (c.node + 1)..(i - 1) : P.prog[j].a_idx # c.slot
                    /\ c.slot \notin {P.temp1loc, P.temp2loc}
                    /\ scratch[ScratchOf(r)][c.slot]
                         = RunUpTo(ScratchAtStart(r), P, run_in[r], 0,
                                   c.node + 1)[c.slot]

\* the root of a five-moduli program is about to read slot 2, which two
\* earlier instructions wrote, and an instruction ran between the left child
\* and the root
C27_Witness ==
    /\ AboutToRun(1)
    /\ ALen(moduli) = 5
    /\ run_i[1] = P.length - 1
    /\ Cardinality(ChildrenOf(ProgramRanges, run_i[1])) = 2
    /\ \E c \in ChildrenOf(ProgramRanges, run_i[1]) : c.node + 1 < run_i[1]
    /\ Cardinality(WritersBefore(P.prog, run_i[1], 2)) = 2
    /\ 2 \in SlotsRead(P, run_i[1])

(***************************************************************************)
(* Moduli and idempotents of the instructions.                             *)
(***************************************************************************)
\* the product of the moduli under instruction i, read off the tree
RECURSIVE SubtreeModulus(_, _)
SubtreeModulus(rgs, i) ==
    LET rg == rgs[i + 1]
        left  == IF rg.start + 1 < rg.mid
                 THEN SubtreeModulus(rgs, NodeOver(rgs, rg.start, rg.mid))
                 ELSE moduli[-P.prog[i].b_idx - 1]
        right == IF rg.mid + 1 < rg.stop
                 THEN SubtreeModulus(rgs, NodeOver(rgs, rg.mid, rg.stop))
                 ELSE moduli[-P.prog[i].c_idx - 1]
    IN  left * right

\* the moduli M_left and M_right of the two children of instruction i
ChildModuli(rgs, i) ==
    LET rg == rgs[i + 1]
    IN  [left  |-> IF rg.start + 1 < rg.mid
                   THEN SubtreeModulus(rgs, NodeOver(rgs, rg.start, rg.mid))
                   ELSE moduli[-P.prog[i].b_idx - 1],
         right |-> IF rg.mid + 1 < rg.stop
                   THEN SubtreeModulus(rgs, NodeOver(rgs, rg.mid, rg.stop))
                   ELSE moduli[-P.prog[i].c_idx - 1]]

\* fmpz_crt_precompute_p has just returned 1 (no run changes the program)
JustCompiled == CompiledGood /\ \A r \in RunIds : run_pc[r] = "idle"

\* C28 as stated: every instruction of a successfully compiled program has
\* modulus = M_left * M_right and idem = 1 (mod M_left), idem = 0 (mod
\* M_right).
C28_IdempotentOneOnLeft ==
    JustCompiled
    => LET rgs == ProgramRanges
       IN  \A i \in Idx(P.prog) :
              LET m == ChildModuli(rgs, i)
              IN  /\ P.prog[i].modulus = m.left * m.right
                  /\ (P.prog[i].idem - 1) % m.left = 0
                  /\ P.prog[i].idem % m.right = 0

\* C28 amended: every instruction of a successfully compiled program has
\* modulus = M_left * M_right, the product of all moduli under it, and
\* idem = M_left * (M_left^-1 mod M_right), so that idem = 0 (mod M_left)
\* and idem = 1 (mod M_right).
C28_IdempotentOneOnRight ==
    JustCompiled
    => LET rgs == ProgramRanges
       IN  \A i \in Idx(P.prog) :
              LET m == ChildModuli(rgs, i)
              IN  /\ P.prog[i].modulus = m.left * m.right
                  /\ P.prog[i].modulus = SubtreeModulus(rgs, i)
                  /\ P.prog[i].idem = m.left * fmpz_invmod(m.left, m.right)
                  /\ P.prog[i].idem % m.left = 0
                  /\ (P.prog[i].idem - 1) % m.right = 0

\* moduli 7, 11, 13: the last instruction has both children's moduli above
\* 1, one of them a product, and its idempotent is 0 on the left and 1 on
\* the right
C28_Witness ==
    /\ JustCompiled
    /\ ALen(moduli) = 3 /\ moduli[0] = 7 /\ moduli[1] = 11 /\ moduli[2] = 13
    /\ LET m == ChildModuli(ProgramRanges, P.length - 1)
           I == P.prog[P.length - 1].idem
       IN  /\ m.left > 1 /\ m.right > 1
           /\ m.left * m.right = 1001
           /\ I % m.left = 0 /\ I % m.right = 1
           /\ I % m.left # 1

(***************************************************************************)
(* The divisibility check after a join.                                    *)
(***************************************************************************)
\* the heights summed and maximised over the join workers (lines 1213-1231)
JoinHeights ==
    [gnm |-> MaxOver(joinargs, "Gmax", 0),    gns |-> SumOver(joinargs, "Gsum", 0),
     anm |-> MaxOver(joinargs, "Abarmax", 0), ans |-> SumOver(joinargs, "Abarsum", 0),
     bnm |-> MaxOver(joinargs, "Bbarmax", 0), bns |-> SumOver(joinargs, "Bbarsum", 0)]

\* the step on which a join ends and the call goes to "successful"
JoinEndsInSuccess == gcd_pc = "join" /\ gcd_pc' = "return" /\ success' = 1

\* C29 as stated: a join ends in success only if
\* 2*max(Abarsum*Gmax, Abarmax*Gsum) < modulus and
\* 2*max(Bbarsum*Gmax, Bbarmax*Gsum) < modulus.
C29_SuccessNeedsMaxBelowModulus ==
    [][JoinEndsInSuccess
       => LET h == JoinHeights
          IN  /\ 2 * Max(h.ans * h.gnm, h.anm * h.gns) < modulus'
              /\ 2 * Max(h.bns * h.gnm, h.bnm * h.gns) < modulus']_vars

\* the sum of the absolute values of the coefficients of U
RECURSIVE SumAbsOver(_, _)
SumAbsOver(U, k) ==
    IF k >= ALen(U) THEN 0 ELSE Abs(MPValue(U[k].coeff)) + SumAbsOver(U, k + 1)

\* the gathered heights are those of the joined polynomials
HeightsOfJoined ==
    LET h == JoinHeights
    IN  /\ h.gnm = fmpz_mpolyu_height(JoinedG)    /\ h.gns = SumAbsOver(JoinedG, 0)
        /\ h.anm = fmpz_mpolyu_height(JoinedAbar) /\ h.ans = SumAbsOver(JoinedAbar, 0)
        /\ h.bnm = fmpz_mpolyu_height(JoinedBbar) /\ h.bns = SumAbsOver(JoinedBbar, 0)

\* C29 amended: a join ends in success only if
\* 2*min(Abarsum*Gmax, Abarmax*Gsum) < modulus and
\* 2*min(Bbarsum*Gmax, Bbarmax*Gsum) < modulus, where the sums and maxima
\* are the sums and maxima of the absolute values of the coefficients of the
\* joined G, Abar, Bbar and modulus is the product of the joined moduli.
C29_SuccessNeedsMinBelowModulus ==
    [][JoinEndsInSuccess
       => LET h == JoinHeights
          IN  /\ HeightsOfJoined
              /\ modulus' = JoinedModulus
              /\ 2 * Min(h.ans * h.gnm, h.anm * h.gns) < modulus'
              /\ 2 * Min(h.bns * h.gnm, h.bnm * h.gns) < modulus']_vars

\* X^3 - 1 and X^2 + X + 1: success at modulus 5 with G = X^2 + X + 1 and
\* Abar = X - 1, where 2*min(2*1, 1*3) = 4 < 5 <= 6 = 2*max(2*1, 1*3)
C29_Witness ==
    /\ gcd_pc = "return" /\ success = 1
    /\ modulus = 5
    /\ 2 * Min(SumAbsOver(Abar, 0) * fmpz_mpolyu_height(G),
               fmpz_mpolyu_height(Abar) * SumAbsOver(G, 0)) = 4
    /\ 2 * Max(SumAbsOver(Abar, 0) * fmpz_mpolyu_height(G),
               fmpz_mpolyu_height(Abar) * SumAbsOver(G, 0)) = 6
    /\ 2 * Max(SumAbsOver(Bbar, 0) * fmpz_mpolyu_height(G),
               fmpz_mpolyu_height(Bbar) * SumAbsOver(G, 0)) = 6

\* the step on which a join ends (lines 1205-1273)
JoinEnds == gcd_pc = "join" /\ gcd_pc' # "join"

\* ans after "if (fmpz_cmp(ans, anm) > 0) fmpz_swap(ans, anm)"
AfterSwap(ans, anm) == IF ans > anm THEN anm ELSE ans

\* the outcome of the divisibility check against the new modulus m
CheckPasses(m) ==
    LET h == JoinHeights
    IN  /\ 2 * AfterSwap(h.ans * h.gnm, h.anm * h.gns) < m
        /\ 2 * AfterSwap(h.bns * h.gnm, h.bnm * h.gns) < m

\* C30: when a join ends, the modulus becomes the product of the joined
\* moduli; if it is <= bound, another split round starts with bound and
\* success unchanged, whatever the heights are; if it is > bound and
\* 2*ans < modulus and 2*bns < modulus (ans = Abarsum*Gmax swapped with
\* anm = Abarmax*Gsum if larger, likewise bns) the call goes to "successful"
\* with bound unchanged; otherwise bound becomes modulus*2^(2*FLINT_BITS)
\* and another split round starts.
C30_OuterLoopDecision ==
    [][JoinEnds
       => /\ modulus' = JoinedModulus
          /\ IF modulus' <= bound
             THEN gcd_pc' = "compute_split" /\ bound' = bound /\ success' = success
             ELSE IF CheckPasses(modulus')
             THEN gcd_pc' = "return" /\ success' = 1 /\ bound' = bound
             ELSE /\ gcd_pc' = "compute_split"
                  /\ bound' = modulus' * Pow(2, 2 * FLINT_BITS)
                  /\ success' = success]_vars

\* a check has failed: the next split round starts with the raised bound
C30_Witness ==
    /\ gcd_pc = "compute_split"
    /\ modulus > 1
    /\ bound = modulus * Pow(2, 2 * FLINT_BITS)
    /\ success # 1

(***************************************************************************)
(* The distribution of the pool handles over the masters of a round.       *)
(***************************************************************************)
\* the roles handed out in the round: [handle, master, role]
HandleRoles ==
    { [handle |-> splitargs[i].master_handle, master |-> i, role |-> "master"] :
         i \in MasterIds \ {0} }
    \cup
    UNION { { [handle |-> splitargs[i].worker_handles[j], master |-> i,
               role |-> <<"worker", j>>] :
                 j \in DOMAIN splitargs[i].worker_handles } : i \in MasterIds }

\* a split round is under way
InSplitRound == gcd_pc = "split"

\* the threads of the round: every master and every worker it was given
ThreadsOfRound ==
    num_master_threads
      + SumOver([i \in MasterIds |-> splitargs[i]], "num_workers", 0)

\* C31: in every split round master 0 has no handle (it runs on the calling
\* thread), every master i >= 1 has a pool handle, master i has exactly
\* num_workers_i = b_i - 1 worker handles, and every handle 0..num_workers-1
\* of the caller's array has exactly one role in exactly one master, so that
\* the handles given out number num_workers and the threads num_threads.
C31_HandlesArePartitioned ==
    InSplitRound
    => /\ num_master_threads >= 1
       /\ splitargs[0].master_handle = -1
       /\ \A i \in MasterIds \ {0} : splitargs[i].master_handle \in 0..(num_workers - 1)
       /\ \A i \in MasterIds :
             /\ splitargs[i].num_workers >= 0
             /\ Len(splitargs[i].worker_handles) = splitargs[i].num_workers
       /\ \A h \in 0..(num_workers - 1) :
             Cardinality({ r \in HandleRoles : r.handle = h }) = 1
       /\ \A r \in HandleRoles : r.handle \in 0..(num_workers - 1)
       /\ Cardinality(HandleRoles) = num_workers
       /\ ThreadsOfRound = num_threads

\* three handles, two masters of two threads each: master 0 runs on the
\* calling thread with handle 0 as its worker, master 1 runs on handle 1
\* with handle 2 as its worker; the round is under way
C31_Witness ==
    /\ InSplitRound
    /\ num_workers = 3
    /\ num_master_threads = 2
    /\ splitargs[0].master_handle = -1 /\ splitargs[0].worker_handles = <<0>>
    /\ splitargs[1].master_handle = 1 /\ splitargs[1].worker_handles = <<2>>
    /\ \E i \in MasterIds : splitargs[i].image_count >= 1

(***************************************************************************)
(* Termination of _divide_master_threads.                                  *)
(***************************************************************************)
\* the step of the loop that splits v[i]
DivSplits == div_pc = "loop" /\ div_st'.l = div_st.l + 1

\* the sum of the denominators minus the number of fractions, plus the
\* fractions not yet passed: it drops by one on every iteration
DivMeasure(st) == 2 * (SumDen(st.v, st.l) - st.l) + (st.l - st.i)

\* C32: every call of _divide_master_threads with 1 <= n <= MaxN and
\* 1 <= m <= MaxM returns; every split happens with l < m, so that v[l] is
\* an entry of the m-entry vector, and replaces v[i] by two fractions of
\* strictly smaller denominator that are Farey neighbours whose numerators
\* and denominators add up to those of v[i]; every iteration of the loop
\* lowers a non-negative measure.
C32_DivideTerminates ==
    /\ <>(div_pc = "done")
    /\ [](div_pc = "loop" => DivMeasure(div_st) >= 0)
    /\ [][div_pc = "loop" /\ div_pc' = "loop"
             => DivMeasure(div_st') < DivMeasure(div_st)]_vars
    /\ [][DivSplits
          => LET i == div_st.i
                 l == div_st.l
                 old == div_st.v[i]
                 right == div_st'.v[i]
                 left == div_st'.v[l]
             IN  /\ l < div_m
                 /\ l \in DOMAIN div_st.v
                 /\ div_st'.l <= div_m
                 /\ 1 <= left.den /\ left.den < old.den
                 /\ 1 <= right.den /\ right.den < old.den
                 /\ left.num + right.num = old.num
                 /\ left.den + right.den = old.den
                 /\ left.den * right.num - left.num * right.den = 1]_vars

\* n = 3, m = 16: the call has returned after splitting 3/16
C32_Witness ==
    /\ div_pc = "done"
    /\ div_n = 3 /\ div_m = 16
    /\ div_st.l >= 2
    /\ div_st.i = div_st.l
    /\ SumDen(div_st.v, div_st.l) = 16

(***************************************************************************)
(* The masters the gather looks at.                                        *)
(***************************************************************************)
\* the round has come to the gather: no master is running, the flag is
\* clear and no master ended short of its goal (lines 1073-1090)
ReachesGather ==
    /\ gcd_pc = "split"
    /\ MastersDone
    /\ splitbase.gcd_is_one = 0
    /\ \A i \in MasterIds : ~ShortMaster(splitargs[i])

\* C34: in every split round that reaches the gather, every master (the
\* gather reads G->exps[0] of each of them) was assigned required_images >= 1
\* and has image_count >= 1, its G has at least one term and its modulus is
\* above 1.
C34_GatheredMastersHaveImages ==
    ReachesGather
    => \A i \in MasterIds :
          /\ splitargs[i].required_images >= 1
          /\ splitargs[i].image_count >= 1
          /\ ALen(splitargs[i].G) >= 1
          /\ splitargs[i].modulus > 1

=============================================================================
